---- MODULE Spec2Model ----
(***************************************************************************)
(* git-stack: the stacked-change reconciliation engine of                  *)
(* git/helpers/git_stack/src/git_stack (stack.py, change_id.py,            *)
(* hosting_client.py).                                                     *)
(*                                                                         *)
(* Modelling conventions                                                   *)
(*  - A commit is its content [subject, rev, ids]: rev stands for the tree *)
(*    (an amend of the content raises it) and ids is the list of           *)
(*    Change-Id lines of the message, in message order.                    *)
(*  - A SHA names a commit together with its ancestry, so it is modelled   *)
(*    as the list of commit contents from the base branch up to the commit *)
(*    (the empty list is the tip of the remote base branch).               *)
(*  - A change identifier is the tuple <<uuid, stack name, position>>;     *)
(*    None (no identifier) is the empty tuple.                             *)
(*  - A branch name is [path, id]: path is the list of its textual pieces  *)
(*    and id the change identifier embedded in it (None if none).          *)
(*  - The iid of a review is <<identifier of its source branch, n>>, the  *)
(*    n-th review created for that branch: the engine never looks inside   *)
(*    an iid.                                                              *)
(*  - Git commands fail only where the code looks at the outcome           *)
(*    (cherry-pick, push, fetch); remote calls may fail anywhere.          *)
(***************************************************************************)
EXTENDS Integers, Sequences, FiniteSets, TLC

(* ------------------------------ bounds -------------------------------- *)
MaxCommits == 2
MaxUuid == 3
MaxRuns == 2
MaxEdits == 1
MaxFaults == 1

(* --------------------------- basic values ----------------------------- *)
None == <<>>
StackNames == {"a", "b"}
PromptedNames == {"a"}
NoName == ""
InvalidName == "Bad"
Overrides == {NoName, "b", InvalidName}
BaseNames == {<<"main">>, <<"origin/", "main">>}

Max(S) == CHOOSE x \in S : \A y \in S : y <= x

Last(s) == s[Len(s)]

Put(f, k, v) == [x \in DOMAIN f \cup {k} |-> IF x = k THEN v ELSE f[x]]

Drop(f, K) == [x \in DOMAIN f \ K |-> f[x]]

EmptyMap == [x \in {} |-> None]

(* ------------------------- change_id.py ------------------------------- *)
\* an identifier line is <<uuid, stack, position>> when it is written
\* 'Change-Id: ...' and <<uuid, stack, position, "lower">> when its key is
\* written in another case ('change-id: ...')
line_id(line) == SubSeq(line, 1, 3)

\* extract_change_id: the identifier of the first identifier line of the
\* message, if any (the pattern ignores case)
extract_change_id(message) ==
    IF message = <<>> THEN None ELSE line_id(message[1])

extract_stack_name(change_id) == IF change_id = None THEN NoName ELSE change_id[2]

extract_position(change_id) == IF change_id = None THEN 0 ELSE change_id[3]

generate_change_id(uuid_part, stack_name, position) == <<uuid_part, stack_name, position>>

get_branch_name(change_id) == [path |-> <<"user/", "stack-">>, id |-> change_id]

validate_stack_name(stack_name) == stack_name \in StackNames

(* --------------------------- stack.py --------------------------------- *)
BACKUP_REF == "refs/git-stack/backup"

Feature == [path |-> <<"feature">>, id |-> None]
Detached == [path |-> <<>>, id |-> None]

\* add_change_id_to_message: append the line unless one is present
\* mutation: the line is appended whether or not the message has one
add_change_id_to_message_mut(message, change_id) ==
    Append(message, change_id)

add_change_id_to_message(message, change_id) ==
    IF extract_change_id(message) # None THEN message
    ELSE Append(message, change_id)

\* build_mr_chain: str.replace drops every occurrence of 'origin/'
StripOrigin(base_branch) ==
    [path |-> SelectSeq(base_branch, LAMBDA t : t # "origin/"), id |-> None]

build_mr_chain(cs, base_branch) ==
    [i \in 1..Len(cs) |->
        [sha |-> cs[i].sha, change_id |-> cs[i].change_id,
         subject |-> cs[i].subject, message |-> cs[i].message,
         target_branch |-> IF i = 1 THEN StripOrigin(base_branch)
                           ELSE get_branch_name(cs[i - 1].change_id),
         source_branch |-> get_branch_name(cs[i].change_id)]]

\* _get_commits: the commits of base..HEAD, oldest first
get_commits(sha) ==
    [k \in 1..Len(sha) |->
        [sha |-> SubSeq(sha, 1, k),
         change_id |-> extract_change_id(sha[k].ids),
         subject |-> sha[k].subject,
         message |-> sha[k].ids]]

\* mutation: the mapping file is read as empty
load_mapping_mut(file) == EmptyMap

\* load_mapping of a readable file
load_mapping(file) == file

\* mutation: every commit is taken to lack an identifier
needs_id_mut(commit) == TRUE

needs_id(commit) == commit.change_id = None

commits_needing_ids(cs) == {i \in 1..Len(cs) : needs_id(cs[i])}

\* mutation: the working tree is never found dirty
check_clean_raises_mut(isDirty) == FALSE

\* _check_clean_working_tree raises when git status prints something
check_clean_raises(isDirty) == isDirty

\* the start_position loop of _add_change_ids_to_commits (its result is
\* never read by the code that follows it)
start_position(cs) ==
    LET ps == {extract_position(cs[i].change_id) : i \in 1..Len(cs)} \cup {0}
    IN  Max(ps) + 1

\* _determine_stack_name: override, else first identified commit, else
\* 'example' (dry run) or the prompted name
inherited_name(cs) ==
    LET I == {i \in 1..Len(cs) : extract_stack_name(cs[i].change_id) # NoName}
    IN  IF I = {} THEN NoName
        ELSE extract_stack_name(cs[CHOOSE i \in I : \A j \in I : i <= j].change_id)

determine_stack_name(override, cs, dry, prompted) ==
    IF override # NoName THEN override
    ELSE IF inherited_name(cs) # NoName THEN inherited_name(cs)
    ELSE IF dry THEN "example"
    ELSE prompted

\* the position counter after a commit that already has an identifier
position_after(position, change_id) ==
    IF extract_position(change_id) # 0 THEN extract_position(change_id) + 1
    ELSE position + 1

\* the dry-run loop of _add_change_ids_to_commits
RECURSIVE dry_run_ids(_, _, _, _, _)
dry_run_ids(cs, i, position, uuid, stack_name) ==
    IF i > Len(cs) THEN cs
    ELSE IF needs_id(cs[i])
         THEN dry_run_ids(
                [cs EXCEPT ![i].change_id =
                    generate_change_id(uuid, stack_name, position)],
                i + 1, position + 1, uuid + 1, stack_name)
         ELSE dry_run_ids(cs, i + 1,
                position_after(position, cs[i].change_id), uuid, stack_name)

\* mutation: the dry-run branch does not return
after_prelude_mut(dry) == "checkout_base"

\* _add_change_ids_to_commits: where the flow goes after the stack name is
\* known (the dry-run branch returns before anything is rewritten)
after_prelude(dry) == IF dry THEN "downstream" ELSE "checkout_base"

\* mutation: the backup reference is not written
create_backup_ref_mut(dry, old, head) == old

\* _create_backup_ref: git update-ref refs/git-stack/backup HEAD
create_backup_ref(dry, old, head) == IF dry THEN old ELSE <<head>>

\* where a verb goes once every commit has an identifier: push goes on to
\* the downstream commits, reindex is complete
after_rewrite(verb) == IF verb = "push" THEN "downstream" ELSE "done"

\* mutation: the hard reset to the backup is left out
restore_from_backup_mut(ref, head) == head

\* _restore_from_backup: git reset --hard <backup sha>
restore_from_backup(ref, head) == IF ref # <<>> THEN ref[1] ELSE head

(* ------------------------------ state --------------------------------- *)
VARIABLES
    headRef,        \* branch HEAD is attached to, or Detached
    headSha,        \* the commit HEAD is at
    localBr,        \* local branches: name -> sha
    remoteBr,       \* branches on origin: name -> sha
    backupRef,      \* refs/git-stack/backup: <<>> or <<sha>>
    dirty,          \* uncommitted changes in the working tree
    cpInProgress,   \* a cherry-pick stopped on a conflict
    mappingFile,    \* the mapping file: change id -> mr_iid
    mrs,            \* reviews on the hosting service, indexed by iid
    nextUuid,       \* the next random part uuid4 returns
    nextSerial,     \* the next subject a new commit gets
    pc,             \* position of the engine in the running verb
    run,            \* arguments and locals of the running verb
    mapping,        \* self.mapping of the engine instance
    commits,        \* the commit dicts of the running verb
    chain,          \* the chain built by build_mr_chain
    idx,            \* loop index of the rewrite
    position,       \* the position counter of the rewrite
    tasks,          \* chain entries whose worker task has not run yet
    results,        \* results collected from the worker tasks
    calls,          \* mutating calls issued by the running verb
    pre,            \* the repository and remote state when the verb began
    last,           \* the state the last fully successful push left
    created,        \* create_mr calls issued so far, per change id
    createdOk,      \* create_mr calls that returned a review, per change id
    runs,           \* verbs started so far
    faults,         \* failures of git and of the hosting service so far
    edits,          \* user edits so far
    blocksApi,      \* the service offers the blocking-reviews endpoint
    glab,           \* the running call of GitLabClient._run_glab_command
    store,          \* the mapping file on disk, its lock and its users
    codec           \* arguments and results of the change-id functions

vars == <<headRef, headSha, localBr, remoteBr, backupRef, dirty, cpInProgress,
          mappingFile, mrs, nextUuid, nextSerial, pc, run, mapping, commits,
          chain, idx, position, tasks, results, calls, pre, last, created,
          createdOk, runs, faults, edits, blocksApi, glab, store, codec>>

\* groups used in UNCHANGED
refVars == <<headRef, headSha, localBr>>
treeVars == <<dirty, cpInProgress>>
gitVars == <<refVars, remoteBr, backupRef, treeVars>>
hostVars == <<mrs, mappingFile>>
histVars == <<nextSerial, edits, last, runs>>
countVars == <<created, createdOk>>
svcVars == <<blocksApi, glab, store, codec>>
loopVars == <<idx, position>>
poolVars == <<tasks, results>>
engineVars == <<pc, run, mapping, commits, chain, loopVars, poolVars, calls, pre>>

NoCalls == [create |-> 0, update |-> 0, close |-> 0, blocking |-> 0,
            note |-> 0, git |-> 0, save |-> 0]

Snapshot == [headRef |-> headRef, headSha |-> headSha, localBr |-> localBr,
             remoteBr |-> remoteBr, backupRef |-> backupRef,
             mappingFile |-> mappingFile, mrs |-> mrs]

NoSnapshot == [headRef |-> Detached, headSha |-> <<>>, localBr |-> EmptyMap,
               remoteBr |-> EmptyMap, backupRef |-> <<>>,
               mappingFile |-> EmptyMap, mrs |-> EmptyMap]

\* failed: the <<phase, entry>> whose remote call raised; errors: the
\* <<phase, entry>> reported as failed; feature_not_available and
\* skip_warnings: the flag and the warning of _set_mr_dependencies
NoRun == [verb |-> "none", dry |-> FALSE, base |-> <<>>,
          stack_name |-> NoName, original_ref |-> Detached, err |-> "none",
          again |-> FALSE, allok |-> TRUE, down |-> <<>>,
          failed |-> {}, errors |-> {},
          feature_not_available |-> FALSE, skip_warnings |-> 0]

\* no change-id function has been called on a text
NoCodec == [at |-> "none"]

\* the mapping file is not looked at as bytes: nobody holds the lock, no
\* thread is in load_mapping or save_mapping
NoStore == [disk |-> [kind |-> "absent", text |-> <<>>], lock |-> "free",
            at |-> <<>>, job |-> <<>>, seen |-> <<>>, saves |-> 0,
            result |-> [status |-> "none", type |-> "none", value |-> <<>>]]

\* no call of _run_glab_command is running
NoGlab == [status |-> "none", check |-> FALSE, dry |-> FALSE,
           log |-> <<>>, slept |-> <<>>, out |-> ""]

NewCommit(n) == [subject |-> n, rev |-> 0, ids |-> <<>>]

\* the engine is not running: no instance, no locals
EngineIdle ==
    /\ pc = "idle"
    /\ run = NoRun
    /\ mapping = EmptyMap
    /\ commits = <<>>
    /\ chain = <<>>
    /\ idx = 0
    /\ position = 0
    /\ tasks = {}
    /\ results = <<>>
    /\ calls = NoCalls
    /\ pre = NoSnapshot

\* a fresh clone: a feature branch of one or two commits over origin/main
Init ==
    /\ headRef = Feature
    /\ \E n \in 1..2 : headSha = [k \in 1..n |-> NewCommit(k)]
    /\ localBr = [b \in {Feature} |-> headSha]
    /\ remoteBr = EmptyMap
    /\ backupRef = <<>>
    /\ dirty = FALSE
    /\ cpInProgress = FALSE
    /\ mappingFile = EmptyMap
    /\ mrs = EmptyMap
    /\ nextUuid = 1
    /\ nextSerial = Len(headSha) + 1
    /\ EngineIdle
    /\ last = [ok |-> FALSE, headSha |-> <<>>, mappingFile |-> EmptyMap]
    /\ created = EmptyMap
    /\ createdOk = EmptyMap
    /\ runs = 0
    /\ faults = 0
    /\ edits = 0
    /\ blocksApi = TRUE
    /\ store = NoStore
    /\ codec = NoCodec
    /\ glab = NoGlab

\* the outcomes of a call that can fail: it may fail while failures are left
Outcomes == IF faults < MaxFaults THEN BOOLEAN ELSE {TRUE}

Fault(ok) == faults' = IF ok THEN faults ELSE faults + 1

\* git moves HEAD (and the branch it is attached to) to sha
MoveHead(sha) ==
    /\ headSha' = sha
    /\ localBr' = IF headRef = Detached THEN localBr ELSE Put(localBr, headRef, sha)

Git(n) == [calls EXCEPT !.git = @ + n]

(* --------------------------- user edits ------------------------------- *)
UserEdit(sha) ==
    /\ pc = "idle"
    /\ ~cpInProgress
    /\ edits < MaxEdits
    /\ edits' = edits + 1
    /\ MoveHead(sha)
    /\ UNCHANGED <<headRef, remoteBr, backupRef, treeVars, hostVars, nextUuid,
                   engineVars, last, countVars, svcVars, runs, faults>>

\* git commit: a new commit on top
UserCommit ==
    /\ Len(headSha) < MaxCommits
    /\ UserEdit(Append(headSha, NewCommit(nextSerial)))
    /\ nextSerial' = nextSerial + 1

\* a new oldest commit, the others cherry-picked on top
UserInsertBottom ==
    /\ Len(headSha) < MaxCommits
    /\ UserEdit(<<NewCommit(nextSerial)>> \o headSha)
    /\ nextSerial' = nextSerial + 1

\* git commit --amend: the content of the top commit changes, its message
\* is kept
UserAmend ==
    /\ headSha # <<>>
    /\ Last(headSha).rev = 0
    /\ UserEdit([headSha EXCEPT ![Len(headSha)].rev = 1])
    /\ UNCHANGED nextSerial

\* commit i dropped from the branch
UserRemove ==
    \E i \in 1..Len(headSha) :
        /\ Len(headSha) > 1
        /\ UserEdit(SubSeq(headSha, 1, i - 1) \o SubSeq(headSha, i + 1, Len(headSha)))
        /\ UNCHANGED nextSerial

\* a new commit written with the message of commit i (same Change-Id line)
UserCopyMessage ==
    \E i \in 1..Len(headSha) :
        /\ Len(headSha) < MaxCommits
        /\ headSha[i].ids # <<>>
        /\ UserEdit(Append(headSha, [NewCommit(nextSerial) EXCEPT !.ids = headSha[i].ids]))
        /\ nextSerial' = nextSerial + 1

\* the working tree gets or loses uncommitted changes
UserTouch ==
    /\ pc = "idle"
    /\ edits < MaxEdits
    /\ edits' = edits + 1
    /\ dirty' = ~dirty
    /\ UNCHANGED <<refVars, remoteBr, backupRef, cpInProgress, hostVars, nextUuid,
                   nextSerial, engineVars, last, countVars, svcVars, runs, faults>>

\* git cherry-pick --abort by the user after a downstream conflict
UserAbortCherryPick ==
    /\ pc = "idle"
    /\ cpInProgress
    /\ cpInProgress' = FALSE
    /\ UNCHANGED <<refVars, remoteBr, backupRef, dirty, hostVars, nextUuid,
                   histVars, engineVars, countVars, svcVars, faults>>

(* ------------------------------ push ---------------------------------- *)
\* GitStackPush(...).push(base): __init__ loads the mapping, _get_commits
PushBegin ==
    \E dry \in BOOLEAN :
        /\ pc = "idle"
        /\ runs < MaxRuns
        /\ ~cpInProgress
        /\ runs' = runs + 1
        /\ mapping' = load_mapping(mappingFile)
        /\ commits' = get_commits(headSha)
        /\ run' = [NoRun EXCEPT !.verb = "push", !.dry = dry,
                                !.again = /\ last.ok
                                          /\ last.headSha = headSha
                                          /\ last.mappingFile = mappingFile]
        /\ pre' = Snapshot
        /\ pc' = IF headSha = <<>> THEN "done" ELSE "add_ids"
        /\ UNCHANGED <<gitVars, hostVars, nextUuid, nextSerial, edits, last,
                       chain, loopVars, poolVars, calls, countVars, svcVars, faults>>

\* _add_change_ids_to_commits up to the checkout of the base commit; git
\* update-ref of the backup reference runs with check=False and ends with
\* one of the outcomes in outs: when it fails the reference is left as it
\* was and the rewrite goes on
AddChangeIdsBeginOn(outs) ==
    \E override \in Overrides, prompted \in PromptedNames, made \in outs :
        LET name == determine_stack_name(override, commits, run.dry, prompted)
            need == commits_needing_ids(commits)
        IN
        /\ pc = "add_ids"
        /\ nextUuid + Cardinality(need) - 1 <= MaxUuid
        /\ IF need = {}
           THEN /\ pc' = after_rewrite(run.verb)
                /\ UNCHANGED <<run, commits, backupRef, calls, faults>>
           ELSE IF check_clean_raises(dirty)
           THEN /\ pc' = "fatal"
                /\ run' = [run EXCEPT !.err = "dirty"]
                /\ UNCHANGED <<commits, backupRef, calls, faults>>
           ELSE IF override # NoName /\ ~validate_stack_name(override)
           THEN /\ pc' = "fatal"
                /\ run' = [run EXCEPT !.err = "stack_name"]
                /\ UNCHANGED <<commits, backupRef, calls, faults>>
           ELSE IF after_prelude(run.dry) # "checkout_base"
           THEN /\ pc' = after_rewrite(run.verb)
                /\ commits' = dry_run_ids(commits, 1, 1, nextUuid, name)
                /\ run' = [run EXCEPT !.stack_name = name]
                /\ UNCHANGED <<backupRef, calls, faults>>
           ELSE /\ pc' = "checkout_base"
                /\ backupRef' = IF made
                                THEN create_backup_ref(run.dry, backupRef, headSha)
                                ELSE backupRef
                /\ Fault(made)
                /\ calls' = IF run.dry THEN calls ELSE Git(1)
                /\ run' = [run EXCEPT !.stack_name = name, !.original_ref = headRef]
                /\ UNCHANGED commits
        /\ UNCHANGED <<refVars, remoteBr, treeVars, hostVars, nextUuid, histVars,
                       mapping, chain, loopVars, poolVars, pre, countVars, svcVars>>

\* the rewrite begins in a repository whose reference store takes the write
AddChangeIdsBegin == AddChangeIdsBeginOn({TRUE})

\* the rewrite begins; the write of the backup reference may fail
AddChangeIdsBeginFaulty == AddChangeIdsBeginOn(Outcomes)

\* git checkout <base sha>: HEAD detached at the parent of the first commit
CheckoutBase ==
    /\ pc = "checkout_base"
    /\ headRef' = Detached
    /\ headSha' = <<>>
    /\ idx' = 1
    /\ position' = 1
    /\ calls' = Git(1)
    /\ pc' = "pick"
    /\ UNCHANGED <<localBr, remoteBr, backupRef, treeVars, hostVars, nextUuid,
                   histVars, run, mapping, commits, chain, poolVars, pre,
                   countVars, svcVars, faults>>

\* the loop position after commit idx is done
NextPick == IF idx = Len(commits) THEN "return_ref" ELSE "pick"

\* git cherry-pick of commits[idx] (the new identifier is put in the commit
\* dict before the cherry-pick runs)
CherryPick ==
    \E ok \in Outcomes :
        LET commit == commits[idx]
            new_id == generate_change_id(nextUuid, run.stack_name, position)
            picked == Append(headSha, Last(commit.sha))
        IN
        /\ pc = "pick"
        /\ calls' = Git(1)
        /\ Fault(ok)
        /\ IF needs_id(commit)
           THEN /\ commits' = [commits EXCEPT ![idx].change_id = new_id]
                /\ nextUuid' = nextUuid + 1
                /\ UNCHANGED loopVars
                /\ pc' = IF ok THEN "amend" ELSE "abort"
           ELSE /\ commits' = IF ok THEN [commits EXCEPT ![idx].sha = picked]
                              ELSE commits
                /\ position' = IF ok THEN position_after(position, commit.change_id)
                               ELSE position
                /\ idx' = IF ok THEN idx + 1 ELSE idx
                /\ pc' = IF ok THEN NextPick ELSE "abort"
                /\ UNCHANGED nextUuid
        /\ headSha' = IF ok THEN picked ELSE headSha
        /\ cpInProgress' = ~ok
        /\ UNCHANGED <<headRef, localBr, remoteBr, backupRef, dirty, hostVars,
                       histVars, run, mapping, chain, poolVars, pre, countVars, svcVars>>

\* git commit --amend -m <message with the new Change-Id line>
Amend ==
    LET commit == commits[idx]
        new_message == add_change_id_to_message(commit.message, commit.change_id)
        new_sha == [headSha EXCEPT ![Len(headSha)].ids = new_message]
    IN
    /\ pc = "amend"
    /\ headSha' = new_sha
    /\ commits' = [commits EXCEPT ![idx].sha = new_sha, ![idx].message = new_message]
    /\ position' = position + 1
    /\ idx' = idx + 1
    /\ calls' = Git(1)
    /\ pc' = NextPick
    /\ UNCHANGED <<headRef, localBr, remoteBr, backupRef, treeVars, hostVars,
                   nextUuid, histVars, run, mapping, chain, poolVars, pre,
                   countVars, svcVars, faults>>

\* git cherry-pick --abort after a failed cherry-pick
CherryPickAbort ==
    /\ pc = "abort"
    /\ cpInProgress' = FALSE
    /\ calls' = Git(1)
    /\ pc' = "restore"
    /\ UNCHANGED <<refVars, remoteBr, backupRef, dirty, hostVars, nextUuid,
                   histVars, run, mapping, commits, chain, loopVars, poolVars,
                   pre, countVars, svcVars, faults>>

\* _restore_from_backup, then CherryPickError('... Rolled back to original
\* state.'): push prints it, sys.exit(1).  git rev-parse of the backup
\* reference and git reset --hard end with one of the outcomes in outs;
\* when either fails the function returns False, HEAD stays where it is
\* and the caller, which ignores the result, raises the same error
RestoreFromBackupOn(outs) ==
    \E resolved \in outs, reset \in outs :
        /\ pc = "restore"
        /\ MoveHead(IF resolved /\ reset
                    THEN restore_from_backup(backupRef, headSha)
                    ELSE headSha)
        /\ Fault(resolved /\ reset)
        /\ calls' = Git(1)
        /\ run' = [run EXCEPT !.err = "cherry_pick"]
        /\ pc' = "fatal"
        /\ UNCHANGED <<headRef, remoteBr, backupRef, treeVars, hostVars, nextUuid,
                       histVars, mapping, commits, chain, loopVars, poolVars, pre,
                       countVars, svcVars>>

\* the restore in a repository where both commands succeed
RestoreFromBackup == RestoreFromBackupOn({TRUE})

\* the restore; resolving the backup reference or the hard reset may fail
RestoreFromBackupFaulty == RestoreFromBackupOn(Outcomes)

\* mutation: the branch is checked out and not reset
return_to_ref_mut(ref, branches, final) == branches

\* the branches after 'checkout <branch>; reset --hard <last sha>' when the
\* original ref starts with refs/heads/, after 'checkout <last sha>' else
return_to_ref(ref, branches, final) ==
    IF ref = Detached THEN branches ELSE Put(branches, ref, final)

\* git checkout <branch>; git reset --hard <last sha>  (or checkout <sha>)
ReturnToRef ==
    LET final == Last(commits).sha IN
    /\ pc = "return_ref"
    /\ headRef' = run.original_ref
    /\ headSha' = final
    /\ localBr' = return_to_ref(run.original_ref, localBr, final)
    /\ calls' = Git(IF run.original_ref = Detached THEN 1 ELSE 2)
    /\ pc' = "cleanup"
    /\ UNCHANGED <<remoteBr, backupRef, treeVars, hostVars, nextUuid, histVars,
                   run, mapping, commits, chain, loopVars, poolVars, pre,
                   countVars, svcVars, faults>>

\* _cleanup_backup_ref: git update-ref -d refs/git-stack/backup
CleanupBackupRef ==
    /\ pc = "cleanup"
    /\ backupRef' = <<>>
    /\ calls' = Git(1)
    /\ pc' = after_rewrite(run.verb)
    /\ UNCHANGED <<refVars, remoteBr, treeVars, hostVars, nextUuid, histVars,
                   run, mapping, commits, chain, loopVars, poolVars, pre,
                   countVars, svcVars, faults>>

(* ------------------ _rebase_downstream_commits ------------------------ *)
\* mutation: no review is found downstream
downstream_mrs_mut(cs, reviews) == {}

\* the reviews find_mrs_by_stack_name returns and the loop keeps: open, of
\* the stack of commits[0], at a position beyond every local position
downstream_mrs(cs, reviews) ==
    LET stack_name == extract_stack_name(cs[1].change_id)
        local_positions == {extract_position(cs[i].change_id) : i \in 1..Len(cs)} \ {0}
    IN  IF cs = <<>> \/ cs[1].change_id = None \/ stack_name = NoName
           \/ local_positions = {}
        THEN {}
        ELSE {m \in DOMAIN reviews :
                /\ reviews[m].source_branch.id # None
                /\ extract_stack_name(reviews[m].source_branch.id) = stack_name
                /\ extract_position(reviews[m].source_branch.id) > Max(local_positions)
                /\ reviews[m].state = "opened"}

\* downstream_mrs.sort(key=position): ascending by position; reviews at
\* the same position stay in the order the service listed them, which
\* can be any order
sort_by_position(S, reviews) ==
    LET Pos(m) == extract_position(reviews[m].source_branch.id)
        n == Cardinality(S)
    IN  {f \in [1..n -> S] :
            /\ \A i, j \in 1..n : i # j => f[i] # f[j]
            /\ \A i \in 1..n : \A j \in 1..n : i < j => Pos(f[i]) <= Pos(f[j])}

\* the lookup of the downstream reviews (a failed listing gives none)
RebaseDownstreamBegin ==
    \E found \in Outcomes :
      \E down \in IF found THEN sort_by_position(downstream_mrs(commits, mrs), mrs)
                  ELSE {<<>>} :
        /\ pc = "downstream"
        /\ Fault(found)
        /\ run' = [run EXCEPT !.down = IF run.dry THEN <<>> ELSE down]
        /\ pc' = IF down = <<>> \/ run.dry THEN "build_chain" ELSE "rebase"
        /\ UNCHANGED <<gitVars, hostVars, nextUuid, histVars, mapping, commits,
                       chain, loopVars, poolVars, calls, pre, countVars, svcVars>>

\* mutation: the conflict is reported and push goes on to the chain
after_conflict_mut(branch) == "build_chain"

\* raise CherryPickError('Rebase conflict while rebasing <branch>'): push
\* prints it and exits
after_conflict(branch) == "fatal"

\* git fetch origin <branch>; git cherry-pick origin/<branch>
RebaseDownstreamPick ==
    \E ok \in Outcomes :
        LET branch == mrs[run.down[1]].source_branch
            fetched == branch \in DOMAIN remoteBr
            picked == Last(remoteBr[branch])
            new_sha == Append(headSha, picked)
        IN
        /\ pc = "rebase"
        /\ Fault(ok)
        /\ IF fetched /\ ok
           THEN /\ MoveHead(new_sha)
                /\ commits' = Append(commits,
                       [sha |-> new_sha, message |-> picked.ids,
                        subject |-> picked.subject,
                        change_id |-> extract_change_id(picked.ids)])
                /\ run' = [run EXCEPT !.down = Tail(@)]
                /\ pc' = IF Len(run.down) = 1 THEN "build_chain" ELSE "rebase"
                /\ calls' = Git(1)
                /\ UNCHANGED cpInProgress
           ELSE /\ cpInProgress' = fetched
                /\ run' = [run EXCEPT !.err = "downstream"]
                /\ pc' = after_conflict(branch)
                /\ calls' = IF fetched THEN Git(1) ELSE calls
                /\ UNCHANGED <<headSha, localBr, commits>>
        /\ UNCHANGED <<headRef, remoteBr, backupRef, dirty, hostVars, nextUuid,
                       histVars, mapping, chain, loopVars, poolVars, pre, countVars, svcVars>>

\* chain = build_mr_chain(commits, base_branch); a dry run returns the plan
BuildChainOn(bases) ==
    \E base_branch \in bases :
        /\ pc = "build_chain"
        /\ chain' = build_mr_chain(commits, base_branch)
        /\ run' = [run EXCEPT !.base = base_branch]
        /\ pc' = IF run.dry THEN "done" ELSE "branches"
        /\ UNCHANGED <<gitVars, hostVars, nextUuid, histVars, mapping, commits,
                       loopVars, poolVars, calls, pre, countVars, svcVars, faults>>

\* push with the default of --base
BuildChain == BuildChainOn({<<"main">>})

(* ------------------- _create_or_update_branches ----------------------- *)
\* git branch -f <source_branch> <sha> for every entry but the checked-out
\* branch; a later entry of the same branch overwrites an earlier one
RECURSIVE force_branches(_, _, _, _)
RECURSIVE pushed_branches(_, _, _)

\* mutation: the checked-out branch is force-updated like the others
force_branches_mut(br, ch, i, current_branch) ==
    pushed_branches(br, ch, i)

force_branches(br, ch, i, current_branch) ==
    IF i > Len(ch) THEN br
    ELSE force_branches(
            IF current_branch # ch[i].source_branch
            THEN Put(br, ch[i].source_branch, ch[i].sha) ELSE br,
            ch, i + 1, current_branch)

\* git push refuses two refspecs with the same destination
refspecs_collide(ch) ==
    \E i, j \in 1..Len(ch) : i # j /\ ch[i].source_branch = ch[j].source_branch

\* mutation: the push leaves origin as it was
pushed_branches_mut(br, ch, i) == br

\* git push -f origin <sha>:refs/heads/<source_branch> ...
pushed_branches(br, ch, i) ==
    IF i > Len(ch) THEN br
    ELSE pushed_branches(Put(br, ch[i].source_branch, ch[i].sha), ch, i + 1)

UpdateLocalBranches ==
    /\ pc = "branches"
    /\ localBr' = force_branches(localBr, chain, 1, headRef)
    /\ calls' = Git(Cardinality({i \in 1..Len(chain) : chain[i].source_branch # headRef}))
    /\ pc' = "push"
    /\ UNCHANGED <<headRef, headSha, remoteBr, backupRef, treeVars, hostVars,
                   nextUuid, histVars, run, mapping, commits, chain, loopVars,
                   poolVars, pre, countVars, svcVars, faults>>

\* the batched push; a failure is a CalledProcessError nobody catches
PushBranches ==
    \E ok \in Outcomes :
        /\ pc = "push"
        /\ calls' = Git(1)
        /\ Fault(ok)
        /\ IF ok /\ ~refspecs_collide(chain)
           THEN /\ remoteBr' = pushed_branches(remoteBr, chain, 1)
                /\ tasks' = 1..Len(chain)
                /\ pc' = "mrs"
                /\ UNCHANGED run
           ELSE /\ run' = [run EXCEPT !.err = "push"]
                /\ pc' = "crashed"
                /\ UNCHANGED <<remoteBr, tasks>>
        /\ UNCHANGED <<refVars, backupRef, treeVars, hostVars, nextUuid, histVars,
                       mapping, commits, chain, loopVars, results, pre, countVars, svcVars>>

(* ----------------------- _create_or_update_mrs ------------------------ *)
\* mutation: the mapping is not consulted
existing_mr_mut(map, change_id) == FALSE

\* process_mr decides by the mapping: update when the id is mapped
existing_mr(map, change_id) == change_id \in DOMAIN map

Bump(f, k) == Put(f, k, IF k \in DOMAIN f THEN f[k] + 1 ELSE 1)

\* the iid the service gives the next review of a source branch
next_iid(reviews, change_id) ==
    <<change_id, Cardinality({m \in DOMAIN reviews : m[1] = change_id}) + 1>>

\* the except branch of a result loop: the entry is reported as failed
report_error(r, phase, i) ==
    [r EXCEPT !.allok = FALSE,
              !.failed = @ \cup {<<phase, i, "raise">>},
              !.errors = @ \cup {<<phase, i>>}]

NewMr(commit) == [source_branch |-> commit.source_branch,
                  target_branch |-> commit.target_branch,
                  state |-> "opened", notes |-> 0]

\* mutation: the result of a create does not name its identifier
create_result_mut(mr_iid, change_id) == <<"create", mr_iid, None>>

\* what process_mr returns after create_mr: the id the call returned and
\* the identifier of the entry (the URL goes with the id)
create_result(mr_iid, change_id) == <<"create", mr_iid, change_id>>

\* one worker task of the pool: process_mr(chain[i])
ProcessMr ==
    \E i \in tasks, ok \in Outcomes :
        LET commit == chain[i]
            change_id == commit.change_id
            updated == ok /\ mapping[change_id] \in DOMAIN mrs
        IN
        /\ pc = "mrs"
        /\ tasks' = tasks \ {i}
        /\ Fault(ok)
        /\ IF existing_mr(mapping, change_id)
           THEN /\ calls' = [calls EXCEPT !.update = @ + 1]
                /\ mrs' = IF updated
                          THEN [mrs EXCEPT ![mapping[change_id]].target_branch =
                                                commit.target_branch]
                          ELSE mrs
                /\ results' = IF updated
                              THEN Append(results, <<"update", mapping[change_id], None>>)
                              ELSE results
                /\ run' = IF updated THEN run ELSE report_error(run, "mrs", i)
                /\ UNCHANGED countVars
           ELSE /\ calls' = [calls EXCEPT !.create = @ + 1]
                /\ created' = Bump(created, change_id)
                /\ createdOk' = IF ok THEN Bump(createdOk, change_id) ELSE createdOk
                /\ mrs' = IF ok THEN Put(mrs, next_iid(mrs, change_id), NewMr(commit))
                          ELSE mrs
                /\ results' = IF ok
                              THEN Append(results,
                                     create_result(next_iid(mrs, change_id), change_id))
                              ELSE results
                /\ run' = IF ok THEN run ELSE report_error(run, "mrs", i)
        /\ UNCHANGED <<gitVars, mappingFile, nextUuid, histVars, pc, mapping,
                       commits, chain, loopVars, pre, svcVars>>

RECURSIVE merge_results(_, _, _)

\* mutation: no result is merged into the mapping
merge_results_mut(map, res, i) == map

\* the mapping after the results loop: one entry per 'create' result
merge_results(map, res, i) ==
    IF i > Len(res) THEN map
    ELSE merge_results(
            IF res[i][1] = "create" /\ res[i][3] # None
            THEN Put(map, res[i][3], res[i][2]) ELSE map,
            res, i + 1)

\* mutation: the flag that triggers save_mapping is never set
new_mrs_created_mut(res) == FALSE

new_mrs_created(res) == \E i \in 1..Len(res) : res[i][1] = "create" /\ res[i][3] # None

\* after the pool has joined: merge the creates and save_mapping once
MergeMrResults ==
    /\ pc = "mrs"
    /\ tasks = {}
    /\ mapping' = merge_results(mapping, results, 1)
    /\ mappingFile' = IF new_mrs_created(results) THEN mapping' ELSE mappingFile
    /\ calls' = IF new_mrs_created(results) THEN [calls EXCEPT !.save = @ + 1] ELSE calls
    /\ tasks' = 1..Len(chain)
    /\ results' = <<>>
    /\ pc' = "deps"
    /\ UNCHANGED <<gitVars, mrs, nextUuid, histVars, run, commits, chain,
                   loopVars, pre, countVars, svcVars, faults>>

(* ------------------------ _set_mr_dependencies ------------------------ *)
\* set_dependency(i, commit) returns None without a call
dependency_skipped(map, ch, i) ==
    \/ i = 1
    \/ ch[i].change_id \notin DOMAIN map
    \/ ch[i - 1].change_id \notin DOMAIN map

\* what set_mr_dependencies does: it raises ValueError on a service
\* without the endpoint (and on any other 404), another exception on any
\* other failure
dependency_outcomes(api) ==
    (IF api THEN {"success"} ELSE {"not_available"})
        \cup (IF faults < MaxFaults THEN {"not_available", "error"} ELSE {})

\* mutation: every exception is handled like the ValueError
dependency_status_mut(outcome) ==
    IF outcome = "success" THEN "success" ELSE "not_available"

\* the status set_dependency returns: 'not_available' for a ValueError,
\* 'error' for any other exception
dependency_status(outcome) == outcome

\* the result loop of _set_mr_dependencies on one completed task: the first
\* 'not_available' prints the warning and leaves the loop, after which no
\* result is looked at; an 'error' is printed for its entry
report_dependency(r, i, status) ==
    IF r.feature_not_available \/ status = "success" THEN r
    ELSE IF status = "not_available"
    THEN [r EXCEPT !.feature_not_available = TRUE, !.skip_warnings = @ + 1]
    ELSE [r EXCEPT !.errors = @ \cup {<<"deps", i>>}]

\* the call of set_mr_dependencies raised: ValueError ('not_available') or
\* another exception ('raise')
dependency_failed(r, i, outcome) ==
    IF outcome = "success" THEN r
    ELSE [r EXCEPT !.allok = FALSE,
                   !.failed = @ \cup {<<"deps", i,
                       IF outcome = "error" THEN "raise" ELSE outcome>>}]

\* one worker task of the pool: set_dependency(i, chain[i]); every task
\* was submitted before the first result is read
SetDependency ==
    \E i \in tasks :
        /\ pc = "deps"
        /\ tasks' = tasks \ {i}
        /\ IF dependency_skipped(mapping, chain, i)
           THEN UNCHANGED <<calls, run, faults>>
           ELSE \E outcome \in dependency_outcomes(blocksApi) :
                    /\ calls' = [calls EXCEPT !.blocking = @ + 1]
                    /\ Fault(outcome = (IF blocksApi THEN "success"
                                                      ELSE "not_available"))
                    /\ run' = report_dependency(dependency_failed(run, i, outcome),
                                                i, dependency_status(outcome))
        /\ UNCHANGED <<gitVars, hostVars, nextUuid, histVars, pc, mapping, commits,
                       chain, loopVars, results, pre, countVars, svcVars>>

DependenciesDone ==
    /\ pc = "deps"
    /\ tasks = {}
    /\ tasks' = 1..Len(chain)
    /\ pc' = "links"
    /\ UNCHANGED <<gitVars, hostVars, nextUuid, histVars, run, mapping, commits,
                   chain, loopVars, results, calls, pre, countVars, svcVars, faults>>

(* ----------------------- _update_mr_stack_links ----------------------- *)
\* the outcomes of get_mr_notes and of the call that writes the note
LinkOutcomes ==
    {o \in BOOLEAN \X BOOLEAN :
        (IF o[1] THEN 0 ELSE 1) + (IF o[2] THEN 0 ELSE 1) <= MaxFaults - faults}

\* the search for the marker in the notes get_mr_notes returned; the
\* production client returns no note when its call failed
has_stack_note(reviews, mr_iid, listed) ==
    listed /\ mr_iid \in DOMAIN reviews /\ reviews[mr_iid].notes > 0

\* one worker task of the pool: update_stack_link(i, chain[i]) updates the
\* marker note if it found one, else adds one
UpdateStackLink ==
    \E i \in tasks, o \in LinkOutcomes :
        LET change_id == chain[i].change_id
            listed == o[1]
            ok == o[2]
        IN
        /\ pc = "links"
        /\ tasks' = tasks \ {i}
        /\ IF change_id \notin DOMAIN mapping
           THEN /\ listed /\ ok
                /\ UNCHANGED <<mrs, calls, run, faults>>
           ELSE LET mr_iid == mapping[change_id]
                    written == ok /\ mr_iid \in DOMAIN mrs
                IN
                /\ faults' = faults + (IF listed THEN 0 ELSE 1) + (IF ok THEN 0 ELSE 1)
                /\ calls' = [calls EXCEPT !.note = @ + 1]
                /\ mrs' = IF written /\ ~has_stack_note(mrs, mr_iid, listed)
                          THEN [mrs EXCEPT ![mr_iid].notes = @ + 1]
                          ELSE mrs
                /\ run' = IF written THEN run ELSE report_error(run, "links", i)
        /\ UNCHANGED <<gitVars, mappingFile, nextUuid, histVars, pc, mapping,
                       commits, chain, loopVars, results, pre, countVars, svcVars>>

\* '+ Stack processing complete!'
StackLinksDone ==
    /\ pc = "links"
    /\ tasks = {}
    /\ pc' = "done"
    /\ last' = IF run.allok
               THEN [ok |-> TRUE, headSha |-> headSha, mappingFile |-> mappingFile]
               ELSE last
    /\ UNCHANGED <<gitVars, hostVars, nextUuid, nextSerial, edits, runs, run,
                   mapping, commits, chain, loopVars, poolVars, calls, pre,
                   countVars, svcVars, faults>>

\* the verb returns (or exits); the engine instance is gone
Finish ==
    /\ pc \in {"done", "fatal", "crashed"}
    /\ pc' = "idle"
    /\ run' = NoRun
    /\ mapping' = EmptyMap
    /\ commits' = <<>>
    /\ chain' = <<>>
    /\ idx' = 0
    /\ position' = 0
    /\ tasks' = {}
    /\ results' = <<>>
    /\ calls' = NoCalls
    /\ pre' = NoSnapshot
    /\ UNCHANGED <<gitVars, hostVars, nextUuid, histVars, countVars, svcVars, faults>>

Next ==
    \/ UserCommit
    \/ UserInsertBottom
    \/ UserAmend
    \/ UserRemove
    \/ UserCopyMessage
    \/ UserTouch
    \/ UserAbortCherryPick
    \/ PushBegin
    \/ AddChangeIdsBegin
    \/ CheckoutBase
    \/ CherryPick
    \/ Amend
    \/ CherryPickAbort
    \/ RestoreFromBackup
    \/ ReturnToRef
    \/ CleanupBackupRef
    \/ RebaseDownstreamBegin
    \/ RebaseDownstreamPick
    \/ BuildChain
    \/ UpdateLocalBranches
    \/ PushBranches
    \/ ProcessMr
    \/ MergeMrResults
    \/ SetDependency
    \/ DependenciesDone
    \/ UpdateStackLink
    \/ StackLinksDone
    \/ Finish

Spec == Init /\ [][Next]_vars

(* ------------------ build_mr_chain on its own ------------------------- *)
\* base branch names: a remote-tracking name, a local name, and names in
\* which 'origin/' occurs after the first piece
ChainBases == BaseNames \cup {<<"release/", "origin/", "hotfix">>,
                              <<"origin/", "origin/", "main">>}

ChainIds == {<<1, "a", 1>>, <<2, "a", 2>>, <<3, "a", 1>>}

\* push has the commit list in hand, every commit carrying an identifier
InitChain ==
    \E n \in 1..MaxCommits, dry \in BOOLEAN :
        \E ids \in [1..n -> ChainIds] :
            /\ headRef = Feature
            /\ headSha = [k \in 1..n |-> [NewCommit(k) EXCEPT !.ids = <<ids[k]>>]]
            /\ localBr = [b \in {Feature} |-> headSha]
            /\ remoteBr = EmptyMap
            /\ backupRef = <<>>
            /\ dirty = FALSE
            /\ cpInProgress = FALSE
            /\ mappingFile = EmptyMap
            /\ mrs = EmptyMap
            /\ nextUuid = 1
            /\ nextSerial = n + 1
            /\ pc = "build_chain"
            /\ run = [NoRun EXCEPT !.verb = "push", !.dry = dry]
            /\ mapping = EmptyMap
            /\ commits = get_commits(headSha)
            /\ chain = <<>>
            /\ idx = 0
            /\ position = 0
            /\ tasks = {}
            /\ results = <<>>
            /\ calls = NoCalls
            /\ pre = Snapshot
            /\ last = [ok |-> FALSE, headSha |-> <<>>, mappingFile |-> EmptyMap]
            /\ created = EmptyMap
            /\ createdOk = EmptyMap
            /\ runs = 1
            /\ faults = 0
            /\ edits = 0
            /\ blocksApi = TRUE
            /\ store = NoStore
            /\ codec = NoCodec
            /\ glab = NoGlab

NextChain == BuildChainOn(ChainBases)

SpecChain == InitChain /\ [][NextChain]_vars

(* ---------------- clean, reindex, checkout, remove -------------------- *)
MrStates == {"opened", "closed", "merged"}

StackPrefix == <<"user/", "stack-">>

\* the sets of calls that fail in one loop, while failures are left
FailSets(S) == {F \in SUBSET S : Cardinality(F) <= MaxFaults - faults}

\* the identifiers a repository holds from earlier pushes
ExistingIds == <<<<11, "a", 1>>, <<12, "a", 2>>, <<13, "b", 1>>>>

ExistingSha(k) ==
    LET c(j) == [NewCommit(j) EXCEPT !.ids = <<ExistingIds[j]>>]
    IN  IF k = 2 THEN <<c(1), c(2)>> ELSE <<c(k)>>

\* a branch name of the legacy format joins the fields of the identifier
\* with '-' in place of '@'
legacy_branch_name(change_id) ==
    [path |-> StackPrefix, id |-> change_id \o <<"-">>]

\* the stack branch of an earlier push; the branch of stack b may date
\* from the legacy format
ExistingBranchIn(k, legacy) ==
    IF legacy /\ k = 3 THEN legacy_branch_name(ExistingIds[k])
    ELSE get_branch_name(ExistingIds[k])

\* a repository after earlier pushes of stacks a and b, HEAD at head and
\* attached to one of refs (or detached at the tip of the feature branch):
\* each review is open, closed or merged, each mapping entry is there or
\* has been deleted, the local stack branches are one of the sets in branches
InitRepoOn(refs, legacy, head, branches) ==
    \E M \in SUBSET (1..3), L \in branches, st \in [1..3 -> MrStates] :
        /\ headRef \in refs
        /\ headSha = head
        /\ localBr = [b \in {Feature} \cup {ExistingBranchIn(k, legacy) : k \in L} |->
                        IF b = Feature THEN headSha
                        ELSE ExistingSha(CHOOSE k \in L : ExistingBranchIn(k, legacy) = b)]
        /\ remoteBr = [b \in {ExistingBranchIn(k, legacy) : k \in 1..3} |->
                        ExistingSha(CHOOSE k \in 1..3 : ExistingBranchIn(k, legacy) = b)]
        /\ backupRef = <<>>
        /\ dirty = FALSE
        /\ cpInProgress = FALSE
        /\ mappingFile = [c \in {ExistingIds[k] : k \in M} |-> <<c, 1>>]
        /\ mrs = [m \in {<<ExistingIds[k], 1>> : k \in 1..3} |->
                    LET k == CHOOSE j \in 1..3 : ExistingIds[j] = m[1] IN
                    [source_branch |-> ExistingBranchIn(k, legacy),
                     target_branch |-> IF k = 2 THEN ExistingBranchIn(1, legacy)
                                       ELSE StripOrigin(<<"main">>),
                     state |-> st[k], notes |-> 1]]
        /\ nextUuid = 1
        /\ nextSerial = 4
        /\ EngineIdle
        /\ last = [ok |-> FALSE, headSha |-> <<>>, mappingFile |-> EmptyMap]
        /\ created = EmptyMap
        /\ createdOk = EmptyMap
        /\ runs = 0
        /\ faults = 0
        /\ edits = 0
        /\ blocksApi = TRUE
        /\ store = NoStore
        /\ codec = NoCodec
        /\ glab = NoGlab

\* the same repository with the feature branch checked out
InitRepoAt(legacy, head, branches) == InitRepoOn({Feature}, legacy, head, branches)

InitRepo(legacy) == InitRepoAt(legacy, ExistingSha(2), SUBSET (1..3))

InitOps == InitRepo(FALSE)

\* a verb starts: __init__ loads the mapping
VerbBegin ==
    /\ pc = "idle"
    /\ runs < MaxRuns
    /\ ~cpInProgress
    /\ runs' = runs + 1
    /\ mapping' = load_mapping(mappingFile)
    /\ pre' = Snapshot
    /\ UNCHANGED <<remoteBr, backupRef, treeVars, hostVars, nextUuid, nextSerial,
                   edits, last, chain, loopVars, poolVars, countVars, svcVars>>

(* ------------------------------ clean --------------------------------- *)
CleanBegin ==
    \E dry \in BOOLEAN :
        /\ VerbBegin
        /\ run' = [NoRun EXCEPT !.verb = "clean", !.dry = dry]
        /\ pc' = "clean_branches"
        /\ UNCHANGED <<refVars, commits, calls, faults>>

\* '@' in branch
has_at(branch) == Len(branch.id) = 3

\* _branch_has_open_mr: a branch that is not on the remote has none; a
\* name without '@' is not looked up; a
\* listing that failed returns no review
branch_has_open_mr(branch, remote, reviews, listed) ==
    /\ branch \in DOMAIN remote
    /\ has_at(branch)
    /\ listed
    /\ \E m \in DOMAIN reviews :
          /\ reviews[m].source_branch = branch
          /\ reviews[m].state = "opened"

\* candidates of _find_stale_branches: the local stack branches that are
\* not the branch of a mapping entry
stale_candidates(br, map) ==
    LET local_branches == {b \in DOMAIN br : b.path = StackPrefix}
        mapped_branches == {get_branch_name(c) : c \in DOMAIN map}
    IN  local_branches \ mapped_branches

\* the candidates for which _branch_has_open_mr calls the hosting service
looked_up(br, map, remote) ==
    {b \in stale_candidates(br, map) : b \in DOMAIN remote /\ has_at(b)}

\* _find_stale_branches: the candidates that have no open review; F holds
\* the failed listings
find_stale_branches(br, map, remote, reviews, F) ==
    {b \in stale_candidates(br, map) :
        ~branch_has_open_mr(b, remote, reviews, b \notin F)}

\* the calls of a loop that raised, as the run remembers them
record_failed(r, phase, F) ==
    [r EXCEPT !.failed = @ \cup {<<phase, x, "raise">> : x \in F}]

\* the first half of clean: git branch -D and git push origin --delete for
\* every stale branch (git refuses to delete the checked-out branch)
CleanStaleBranches ==
    \E F \in FailSets(IF run.dry THEN {}
                       ELSE looked_up(localBr, mapping, remoteBr)) :
        LET stale == find_stale_branches(localBr, mapping, remoteBr, mrs,
                                         IF run.dry THEN DOMAIN localBr ELSE F)
        IN
        /\ pc = "clean_branches"
        /\ faults' = faults + Cardinality(F)
        /\ IF run.dry
           THEN UNCHANGED <<localBr, remoteBr, calls>>
           ELSE /\ localBr' = Drop(localBr, stale \ {headRef})
                /\ remoteBr' = Drop(remoteBr, stale)
                /\ calls' = Git(2 * Cardinality(stale))
        /\ pc' = IF mapping = EmptyMap THEN "done" ELSE "clean_mapping"
        /\ run' = record_failed(run, "list", F)
        /\ UNCHANGED <<headRef, headSha, backupRef, treeVars, hostVars, nextUuid,
                       histVars, mapping, commits, chain, loopVars, poolVars,
                       pre, countVars, svcVars>>

\* mutation: every review is reported as merged
mr_state_mut(reviews, mr_iid, dry, failed) == "merged"

\* the state get_mr_state returns: none when the call raised, which the
\* production client does for every call of a dry run
mr_state(reviews, mr_iid, dry, failed) ==
    IF dry \/ failed \/ mr_iid \notin DOMAIN reviews THEN "unknown"
    ELSE reviews[mr_iid].state

\* the entries clean removes: no local branch, or review closed or merged
entries_to_remove(map, br, reviews, dry, F) ==
    {c \in DOMAIN map :
        \/ get_branch_name(c) \notin DOMAIN br
        \/ mr_state(reviews, map[c], dry, c \in F) \in {"closed", "merged"}}

\* the second half of clean: the loop over the mapping, the deletions and
\* save_mapping
CleanMapping ==
    \E F \in FailSets({c \in DOMAIN mapping :
                          ~run.dry /\ get_branch_name(c) \in DOMAIN localBr}) :
        LET to_remove == entries_to_remove(mapping, localBr, mrs, run.dry, F) IN
        /\ pc = "clean_mapping"
        /\ faults' = faults + Cardinality(F)
        /\ mapping' = Drop(mapping, to_remove)
        /\ mappingFile' = IF to_remove # {} THEN mapping' ELSE mappingFile
        /\ calls' = IF to_remove # {} THEN [calls EXCEPT !.save = @ + 1] ELSE calls
        /\ pc' = "done"
        /\ run' = record_failed(run, "state", F)
        /\ UNCHANGED <<gitVars, mrs, nextUuid, histVars, commits, chain,
                       loopVars, poolVars, pre, countVars, svcVars>>

(* ----------------------------- reindex -------------------------------- *)
ReindexBegin ==
    \E dry \in BOOLEAN :
        /\ VerbBegin
        /\ run' = [NoRun EXCEPT !.verb = "reindex", !.dry = dry]
        /\ commits' = get_commits(headSha)
        /\ pc' = IF headSha = <<>> THEN "done" ELSE "reindex_close"
        /\ UNCHANGED <<refVars, calls, faults>>

\* the identifiers of the commits that have a mapping entry
mapped_ids(cs, map) ==
    {cs[i].change_id : i \in 1..Len(cs)} \cap DOMAIN map

\* line.strip().startswith('Change-Id:')
starts_with_key(line) == Len(line) = 3

\* commit['change_id'] = None and every line that starts with 'Change-Id:'
\* dropped
strip_change_ids(cs) ==
    [i \in 1..Len(cs) |->
        [cs[i] EXCEPT !.change_id = None,
                      !.message = SelectSeq(@, LAMBDA l : ~starts_with_key(l))]]

\* the close loop of reindex, save_mapping, and the stripping of the
\* identifiers from the commit dicts; F holds the close calls that raise
ReindexCloseMrs ==
    \E F \in FailSets(IF run.dry THEN {} ELSE mapped_ids(commits, mapping)) :
        LET ids == mapped_ids(commits, mapping)
            closed == IF run.dry THEN {}
                      ELSE {c \in ids \ F : mapping[c] \in DOMAIN mrs}
        IN
        /\ pc = "reindex_close"
        /\ faults' = faults + Cardinality(F)
        /\ mrs' = [m \in DOMAIN mrs |->
                     IF \E c \in closed : mapping[c] = m
                     THEN [mrs[m] EXCEPT !.state = "closed"] ELSE mrs[m]]
        /\ mapping' = Drop(mapping, closed)
        /\ mappingFile' = IF closed # {} THEN mapping' ELSE mappingFile
        /\ calls' = [calls EXCEPT
                       !.close = @ + (IF run.dry THEN 0 ELSE Cardinality(ids)),
                       !.save = @ + (IF closed # {} THEN 1 ELSE 0)]
        /\ commits' = strip_change_ids(commits)
        /\ run' = record_failed(run, "close", F)
        /\ pc' = "add_ids"
        /\ UNCHANGED <<gitVars, nextUuid, histVars, chain, loopVars,
                       poolVars, pre, countVars, svcVars>>

(* ------------------------- checkout and remove ------------------------ *)
\* the mapping entries of a stack
stack_items(map, stack_name) ==
    {c \in DOMAIN map : extract_stack_name(c) = stack_name}

\* mutation: any entry of the stack can come last
last_items_mut(items) == items

\* the entries that can come last after the sort by position
last_items(items) ==
    {c \in items : \A d \in items : extract_position(d) <= extract_position(c)}

\* checkout NAME: git checkout of the branch of the last entry; git makes
\* the local branch from the remote one when only that exists
Checkout ==
    \E dry \in BOOLEAN, stack_name \in StackNames, ok \in Outcomes :
        LET items == stack_items(mappingFile, stack_name) IN
        LET started == [NoRun EXCEPT !.verb = "checkout", !.dry = dry,
                                     !.stack_name = stack_name]
        IN
        /\ VerbBegin
        /\ pc' = "done"
        /\ IF items = {} \/ dry
           THEN /\ ok
                /\ run' = started
                /\ UNCHANGED <<refVars, calls, faults>>
           ELSE \E c \in last_items(items) :
                    LET branch == get_branch_name(c)
                        there == branch \in DOMAIN localBr \cup DOMAIN remoteBr
                    IN
                    /\ calls' = Git(1)
                    /\ Fault(ok)
                    /\ run' = IF ok /\ there THEN started
                              ELSE record_failed(started, "checkout", {c})
                    /\ IF ok /\ branch \in DOMAIN localBr
                       THEN /\ headRef' = branch
                            /\ headSha' = localBr[branch]
                            /\ UNCHANGED localBr
                       ELSE IF ok /\ branch \in DOMAIN remoteBr
                       THEN /\ headRef' = branch
                            /\ headSha' = remoteBr[branch]
                            /\ localBr' = Put(localBr, branch, remoteBr[branch])
                       ELSE UNCHANGED refVars
        /\ UNCHANGED commits

\* remove NAME starts: the entries of the stack, or 'not found'
RemoveBegin ==
    \E dry \in BOOLEAN, stack_name \in StackNames :
        /\ VerbBegin
        /\ run' = [NoRun EXCEPT !.verb = "remove", !.dry = dry,
                                !.stack_name = stack_name]
        /\ pc' = IF stack_items(mappingFile, stack_name) = {} THEN "done"
                 ELSE "remove_close"
        /\ UNCHANGED <<refVars, commits, calls, faults>>

\* the close loop of remove; F holds the close calls that raise
RemoveCloseMrs ==
    \E F \in FailSets(IF run.dry THEN {} ELSE stack_items(mapping, run.stack_name)) :
        LET items == stack_items(mapping, run.stack_name)
            closed == IF run.dry THEN {}
                      ELSE {c \in items \ F : mapping[c] \in DOMAIN mrs}
        IN
        /\ pc = "remove_close"
        /\ faults' = faults + Cardinality(F)
        /\ mrs' = [m \in DOMAIN mrs |->
                     IF \E c \in closed : mapping[c] = m
                     THEN [mrs[m] EXCEPT !.state = "closed"] ELSE mrs[m]]
        /\ calls' = [calls EXCEPT
                       !.close = @ + (IF run.dry THEN 0 ELSE Cardinality(items))]
        /\ pc' = "remove_branches"
        /\ UNCHANGED <<gitVars, mappingFile, nextUuid, histVars, run, mapping,
                       commits, chain, loopVars, poolVars, pre, countVars, svcVars>>

\* the branch loop of remove: git branch -D and git push origin --delete
\* (git refuses to delete the checked-out branch)
RemoveDeleteBranches ==
    LET branches == {get_branch_name(c) : c \in stack_items(mapping, run.stack_name)}
    IN
    /\ pc = "remove_branches"
    /\ IF run.dry
       THEN UNCHANGED <<localBr, remoteBr, calls>>
       ELSE /\ localBr' = Drop(localBr, branches \ {headRef})
            /\ remoteBr' = Drop(remoteBr, branches)
            /\ calls' = Git(2 * Cardinality(branches))
    /\ pc' = "remove_mapping"
    /\ UNCHANGED <<headRef, headSha, backupRef, treeVars, hostVars, nextUuid,
                   histVars, run, mapping, commits, chain, loopVars, poolVars,
                   pre, countVars, svcVars, faults>>

\* the end of remove: the entries deleted and save_mapping, unless dry run
RemoveFromMapping ==
    /\ pc = "remove_mapping"
    /\ IF run.dry
       THEN UNCHANGED <<mapping, mappingFile, calls>>
       ELSE /\ mapping' = Drop(mapping, stack_items(mapping, run.stack_name))
            /\ mappingFile' = mapping'
            /\ calls' = [calls EXCEPT !.save = @ + 1]
    /\ pc' = "done"
    /\ UNCHANGED <<gitVars, mrs, nextUuid, histVars, run, commits, chain,
                   loopVars, poolVars, pre, countVars, svcVars, faults>>

NextOps ==
    \/ UserTouch
    \/ CleanBegin
    \/ CleanStaleBranches
    \/ CleanMapping
    \/ ReindexBegin
    \/ ReindexCloseMrs
    \/ AddChangeIdsBegin
    \/ CheckoutBase
    \/ CherryPick
    \/ Amend
    \/ CherryPickAbort
    \/ RestoreFromBackup
    \/ ReturnToRef
    \/ CleanupBackupRef
    \/ Checkout
    \/ RemoveBegin
    \/ RemoveCloseMrs
    \/ RemoveDeleteBranches
    \/ RemoveFromMapping
    \/ Finish

SpecOps == InitOps /\ [][NextOps]_vars

(* ---------- clean on a repository that may hold a legacy branch ------- *)
InitClean == \E legacy \in BOOLEAN : InitRepo(legacy)

NextClean ==
    \/ Checkout
    \/ CleanBegin
    \/ CleanStaleBranches
    \/ CleanMapping
    \/ Finish

SpecClean == InitClean /\ [][NextClean]_vars

(* ----------- push up to the chain, with reviews downstream ------------ *)
\* stack a has been pushed with three commits and stack b with a commit at
\* position 2
SpliceIds == <<<<11, "a", 1>>, <<12, "a", 2>>, <<13, "a", 3>>, <<14, "b", 2>>>>

SpliceCommit(k) == [NewCommit(k) EXCEPT !.ids = <<SpliceIds[k]>>]

SpliceSha(k) ==
    IF k = 4 THEN <<SpliceCommit(4)>> ELSE [j \in 1..k |-> SpliceCommit(j)]

\* the local branch holds the first n commits of stack a, its tip possibly
\* amended since the push; every branch is on origin and every review is
\* open, closed or merged
InitSpliceOn(counts, amends, states) ==
    \E n \in counts, amended \in amends, st \in states :
        /\ headRef = Feature
        /\ headSha = [SpliceSha(n) EXCEPT ![n].rev = IF amended THEN 1 ELSE 0]
        /\ localBr = [b \in {Feature} |-> headSha]
        /\ remoteBr = [b \in {get_branch_name(SpliceIds[k]) : k \in 1..4} |->
                        SpliceSha(CHOOSE k \in 1..4 : get_branch_name(SpliceIds[k]) = b)]
        /\ backupRef = <<>>
        /\ dirty = FALSE
        /\ cpInProgress = FALSE
        /\ mappingFile = [c \in {SpliceIds[k] : k \in 1..4} |-> <<c, 1>>]
        /\ mrs = [m \in {<<SpliceIds[k], 1>> : k \in 1..4} |->
                    LET k == CHOOSE j \in 1..4 : SpliceIds[j] = m[1] IN
                    [source_branch |-> get_branch_name(SpliceIds[k]),
                     target_branch |-> IF k \in {2, 3}
                                       THEN get_branch_name(SpliceIds[k - 1])
                                       ELSE StripOrigin(<<"main">>),
                     state |-> st[k], notes |-> 1]]
        /\ nextUuid = 1
        /\ nextSerial = 5
        /\ EngineIdle
        /\ last = [ok |-> FALSE, headSha |-> <<>>, mappingFile |-> EmptyMap]
        /\ created = EmptyMap
        /\ createdOk = EmptyMap
        /\ runs = 0
        /\ faults = 0
        /\ edits = 0
        /\ blocksApi = TRUE
        /\ store = NoStore
        /\ codec = NoCodec
        /\ glab = NoGlab

InitSplice == InitSpliceOn(1..2, BOOLEAN, [1..4 -> MrStates])

NextSplice ==
    \/ PushBegin
    \/ AddChangeIdsBegin
    \/ RebaseDownstreamBegin
    \/ RebaseDownstreamPick
    \/ BuildChain
    \/ Finish

SpecSplice == InitSplice /\ [][NextSplice]_vars

(* ------------------- checkout of a pushed stack ----------------------- *)
\* as before, the local tip as pushed and the reviews of the bottom commit
\* and of stack b open
InitCheckout ==
    InitSpliceOn(1..2, {FALSE},
                 {st \in [1..4 -> MrStates] : st[1] = "opened" /\ st[4] = "opened"})

NextCheckout ==
    \/ PushBegin
    \/ AddChangeIdsBegin
    \/ RebaseDownstreamBegin
    \/ RebaseDownstreamPick
    \/ BuildChain
    \/ UpdateLocalBranches
    \/ PushBranches
    \/ ProcessMr
    \/ MergeMrResults
    \/ SetDependency
    \/ DependenciesDone
    \/ UpdateStackLink
    \/ StackLinksDone
    \/ Checkout
    \/ Finish

SpecCheckout == InitCheckout /\ [][NextCheckout]_vars

(* ------------- the mapping file: load_mapping, save_mapping ----------- *)
StoreIds == {<<11, "a", 1>>, <<12, "a", 2>>}

\* the mappings a run saves
StoreMaps == UNION {[S -> {1}] : S \in SUBSET StoreIds}

\* the identifiers of a mapping in the order json.dump writes them
RECURSIVE key_order(_)
key_order(S) ==
    IF S = {} THEN <<>>
    ELSE LET c == CHOOSE x \in S : \A y \in S : x[1] <= y[1]
         IN  <<c>> \o key_order(S \ {c})

\* the pieces of text a file is made of
Open == <<"{">>
Close == <<"}">>
BadByte == <<"xff">>
OtherJson == {<<"[]">>, <<"null">>}
Pieces == {Open, Close, BadByte} \cup OtherJson \cup {<<c, 1>> : c \in StoreIds}

\* the Python type of a JSON document that is no object
type_of(piece) == IF piece = <<"[]">> THEN "list" ELSE "NoneType"

\* json.dump(data, f, indent=2): the pieces handed to f.write, an opening
\* brace, one piece <<identifier, iid>> per entry, a closing brace
json_dump(data) ==
    LET keys == key_order(DOMAIN data) IN
    <<Open>> \o [i \in 1..Len(keys) |-> <<keys[i], data[keys[i]]>>] \o <<Close>>

\* the text is a JSON object: the object it denotes, as a set of pairs
is_object(text) ==
    /\ Len(text) >= 2
    /\ text[1] = Open /\ text[Len(text)] = Close
    /\ \A i \in 2..(Len(text) - 1) : text[i] \in {<<c, 1>> : c \in StoreIds}

object_of(text) ==
    LET keys == {text[i][1] : i \in 2..(Len(text) - 1)} IN
    [c \in keys |-> text[CHOOSE i \in 2..(Len(text) - 1) : text[i][1] = c][2]]

Returned(type, value) == [status |-> "returned", type |-> type, value |-> value]

\* load_mapping on the bytes of the file: {} when the path does not exist,
\* {} on OSError and on JSONDecodeError; f.read() decodes the file before
\* it is parsed, and UnicodeDecodeError is neither; the parsed document is
\* returned whatever its type
load_mapping_file(disk) ==
    IF disk.kind = "absent" THEN Returned("dict", EmptyMap)
    ELSE IF disk.kind = "unreadable" THEN Returned("dict", EmptyMap)
    ELSE IF BadByte \in {disk.text[i] : i \in 1..Len(disk.text)}
    THEN [status |-> "raised", type |-> "UnicodeDecodeError", value |-> EmptyMap]
    ELSE IF is_object(disk.text)
    THEN Returned("dict", object_of(disk.text))
    ELSE IF Len(disk.text) = 1 /\ disk.text[1] \in OtherJson
    THEN Returned(type_of(disk.text[1]), EmptyMap)
    ELSE Returned("dict", EmptyMap)

MaxText == 3

Texts == UNION {[1..n -> Pieces] : n \in 0..MaxText}

\* the repository around the mapping file: one commit, nothing pushed
QuietRepo ==
    /\ headRef = Feature
    /\ headSha = <<NewCommit(1)>>
    /\ localBr = [b \in {Feature} |-> headSha]
    /\ remoteBr = EmptyMap
    /\ backupRef = <<>>
    /\ dirty = FALSE
    /\ cpInProgress = FALSE
    /\ mappingFile = EmptyMap
    /\ mrs = EmptyMap
    /\ nextUuid = 1
    /\ nextSerial = 2
    /\ EngineIdle
    /\ last = [ok |-> FALSE, headSha |-> <<>>, mappingFile |-> EmptyMap]
    /\ created = EmptyMap
    /\ createdOk = EmptyMap
    /\ runs = 0
    /\ faults = 0
    /\ edits = 0
    /\ blocksApi = TRUE
    /\ glab = NoGlab

nonStoreVars == <<gitVars, hostVars, nextUuid, histVars, engineVars, countVars,
                  faults, blocksApi, glab, codec>>

\* the mapping file is absent, unreadable, or holds any short text
InitLoad ==
    /\ QuietRepo
    /\ codec = NoCodec
    /\ \E disk \in {[kind |-> "absent", text |-> <<>>]}
                  \cup [kind : {"file", "unreadable"}, text : Texts] :
          store = [NoStore EXCEPT !.disk = disk]

\* GitStackPush.__init__: self.mapping = load_mapping(self.mapping_path)
LoadMapping ==
    /\ store.result.status = "none"
    /\ store' = [store EXCEPT !.result = load_mapping_file(store.disk)]
    /\ UNCHANGED nonStoreVars

NextLoad == LoadMapping

SpecLoad == InitLoad /\ [][NextLoad]_vars

(* ------------------- the plan of a dry-run push ----------------------- *)
\* push with dry_run set, started in the state of the snapshot: the commits
\* of the branch, identifiers planned for those without one, no downstream
\* commit added, and the chain built over them
dry_run_chain(snap, stack_name) ==
    LET cs == get_commits(snap.headSha)
        planned == IF commits_needing_ids(cs) = {} THEN cs
                   ELSE dry_run_ids(cs, 1, 1, 1, stack_name)
    IN  build_mr_chain(planned, <<"main">>)

\* what the plan prints per entry: the commit, the entry whose branch it
\* targets (0 for the base branch), and 'UPDATE existing MR' or 'CREATE new
\* MR' by the lookup in the mapping
plan_of(ch, map) ==
    [i \in 1..Len(ch) |->
        [subject |-> ch[i].subject,
         target |-> IF ch[i].target_branch.id = None THEN 0
                    ELSE CHOOSE j \in 1..Len(ch) :
                            /\ ch[j].source_branch = ch[i].target_branch
                            /\ \A k \in 1..(j - 1) :
                                  ch[k].source_branch # ch[i].target_branch,
         update |-> ch[i].change_id \in DOMAIN map]]

(* --------- push and reindex on commits with and without a line ------- *)
LineKinds == {"none", "Change-Id:", "change-id:"}

\* commit k with no identifier line, with one, or with one whose label is
\* in lower case
LineCommit(k, kind) ==
    [NewCommit(k) EXCEPT !.ids = IF kind = "none" THEN <<>>
                                 ELSE IF kind = "Change-Id:" THEN <<ExistingIds[k]>>
                                 ELSE <<ExistingIds[k] \o <<"lower">>>>]

\* one or two commits, each with at most one identifier line; the commits
\* with a line were pushed before, and every review is open: with one
\* local commit the review of the second commit is downstream
InitLines ==
    \E n \in 1..2 :
      \E kinds \in [1..n -> LineKinds] :
        /\ InitRepoAt(FALSE, [k \in 1..n |-> LineCommit(k, kinds[k])], {1..3})
        /\ DOMAIN mappingFile = {ExistingIds[k] : k \in {j \in 1..n : kinds[j] # "none"}}
        /\ \A m \in DOMAIN mrs : mrs[m].state = "opened"

NextLines ==
    \/ PushBegin
    \/ ReindexBegin
    \/ ReindexCloseMrs
    \/ AddChangeIdsBegin
    \/ CheckoutBase
    \/ CherryPick
    \/ Amend
    \/ CherryPickAbort
    \/ RestoreFromBackup
    \/ ReturnToRef
    \/ CleanupBackupRef
    \/ RebaseDownstreamBegin
    \/ RebaseDownstreamPick
    \/ BuildChain
    \/ UpdateLocalBranches
    \/ PushBranches
    \/ ProcessMr
    \/ MergeMrResults
    \/ SetDependency
    \/ DependenciesDone
    \/ UpdateStackLink
    \/ StackLinksDone
    \/ Finish

SpecLines == InitLines /\ [][NextLines]_vars

(* ------- the history rewrite of push, git plumbing allowed to fail ---- *)
\* one or two commits, the first without an identifier line; HEAD is on
\* the feature branch or detached at its tip
InitRewrite ==
    \E n \in 1..2 :
      \E kinds \in [1..n -> {"none", "Change-Id:"}] :
        /\ kinds[1] = "none"
        /\ InitRepoOn({Feature, Detached}, FALSE,
                      [k \in 1..n |-> LineCommit(k, kinds[k])], {{}})
        /\ DOMAIN mappingFile = {ExistingIds[k] : k \in {j \in 1..n : kinds[j] # "none"}}
        /\ \A m \in DOMAIN mrs : mrs[m].state = "opened"

\* push up to the end of _add_change_ids_to_commits
NextRewrite ==
    \/ UserCommit
    \/ PushBegin
    \/ AddChangeIdsBeginFaulty
    \/ CheckoutBase
    \/ CherryPick
    \/ Amend
    \/ CherryPickAbort
    \/ RestoreFromBackupFaulty
    \/ ReturnToRef
    \/ CleanupBackupRef
    \/ Finish

SpecRewrite == InitRewrite /\ [][NextRewrite]_vars

(* ------------- push up to the branch phase, from any branch ----------- *)
\* the first one or two commits of stack a, pushed before, every review
\* open; HEAD is on the feature branch or, after a checkout of the stack
\* branch of the top commit, on that branch
InitBranches ==
    \E n \in 1..2 :
        /\ InitRepoOn({Feature, ExistingBranchIn(n, FALSE)}, FALSE,
                      SubSeq(ExistingSha(2), 1, n), {{1, 2}})
        /\ DOMAIN mappingFile = {ExistingIds[k] : k \in 1..3}
        /\ \A m \in DOMAIN mrs : mrs[m].state = "opened"

\* push up to the end of _create_or_update_branches
NextBranches ==
    \/ UserCommit
    \/ UserCopyMessage
    \/ PushBegin
    \/ AddChangeIdsBegin
    \/ CheckoutBase
    \/ CherryPick
    \/ Amend
    \/ CherryPickAbort
    \/ RestoreFromBackup
    \/ ReturnToRef
    \/ CleanupBackupRef
    \/ RebaseDownstreamBegin
    \/ RebaseDownstreamPick
    \/ BuildChain
    \/ UpdateLocalBranches
    \/ PushBranches
    \/ Finish

SpecBranches == InitBranches /\ [][NextBranches]_vars

(* ------------- two engine instances on one mapping file --------------- *)
\* the identifier of the commit the other instance pushes
OtherId == <<21, "b", 1>>

\* a second GitStackPush, constructed while this one is running, pushes its
\* commit as a whole: it pushes the branch, creates the review and, like
\* every instance, saves the mapping it loaded plus its new entry
OtherInstancePush ==
    LET iid == next_iid(mrs, OtherId)
        commit == [source_branch |-> get_branch_name(OtherId),
                   target_branch |-> StripOrigin(<<"main">>)]
    IN
    /\ pc # "idle"
    /\ OtherId \notin DOMAIN mappingFile
    /\ iid \notin DOMAIN mrs
    /\ remoteBr' = Put(remoteBr, get_branch_name(OtherId),
                       <<[NewCommit(21) EXCEPT !.ids = <<OtherId>>]>>)
    /\ mrs' = Put(mrs, iid, NewMr(commit))
    /\ mappingFile' = Put(load_mapping(mappingFile), OtherId, iid)
    /\ UNCHANGED <<refVars, backupRef, treeVars, nextUuid, histVars, engineVars,
                   countVars, svcVars, faults>>

InitInstances == InitLines

\* the push of this instance, the push of the other one in between
NextInstances ==
    \/ PushBegin
    \/ AddChangeIdsBegin
    \/ CheckoutBase
    \/ CherryPick
    \/ Amend
    \/ CherryPickAbort
    \/ RestoreFromBackup
    \/ ReturnToRef
    \/ CleanupBackupRef
    \/ RebaseDownstreamBegin
    \/ RebaseDownstreamPick
    \/ BuildChain
    \/ UpdateLocalBranches
    \/ PushBranches
    \/ ProcessMr
    \/ MergeMrResults
    \/ SetDependency
    \/ DependenciesDone
    \/ UpdateStackLink
    \/ StackLinksDone
    \/ OtherInstancePush
    \/ Finish

SpecInstances == InitInstances /\ [][NextInstances]_vars

(* ------------- the change-id functions on commit text ----------------- *)
MaxName == 3
MaxPos == 11

Letters == {"a", "s"}
DigitSeq == <<"0", "1", "2", "3", "4", "5", "6", "7", "8", "9">>
DigitChars == {DigitSeq[i] : i \in 1..10}
\* [a-f0-9]
HexChars == {"a"} \cup DigitChars
\* [a-z0-9-]
NameChars == Letters \cup DigitChars \cup {"-"}

CHANGE_ID_DELIMITER == "@"

\* str(position)
RECURSIVE str(_)
str(n) ==
    IF n < 10 THEN <<DigitSeq[n + 1]>>
    ELSE str(n \div 10) \o <<DigitSeq[(n % 10) + 1]>>

\* str.isdigit
isdigit(s) == s # <<>> /\ \A i \in 1..Len(s) : s[i] \in DigitChars

\* int(s) of a string of digits
RECURSIVE int(_)
int(s) ==
    IF s = <<>> THEN 0
    ELSE 10 * int(SubSeq(s, 1, Len(s) - 1))
         + (CHOOSE d \in 0..9 : DigitSeq[d + 1] = s[Len(s)])

\* str.split(delimiter)
RECURSIVE split(_, _)
split(s, d) ==
    IF \A i \in 1..Len(s) : s[i] # d THEN <<s>>
    ELSE LET k == CHOOSE i \in 1..Len(s) :
                      s[i] = d /\ \A j \in 1..(i - 1) : s[j] # d
         IN  <<SubSeq(s, 1, k - 1)>> \o split(SubSeq(s, k + 1, Len(s)), d)

\* '-'.join(parts)
RECURSIVE join(_, _)
join(parts, d) ==
    IF parts = <<>> THEN <<>>
    ELSE IF Len(parts) = 1 THEN parts[1]
    ELSE parts[1] \o <<d>> \o join(Tail(parts), d)

\* the longest prefix of s made of characters of C: a greedy class+
RECURSIVE run_of(_, _)
run_of(s, C) ==
    IF s = <<>> \/ Head(s) \notin C THEN <<>>
    ELSE <<Head(s)>> \o run_of(Tail(s), C)

after(s, prefix) == SubSeq(s, Len(prefix) + 1, Len(s))

\* the text None stands for
NoText == <<>>
NoInt == -1

\* mutation: the identifier is joined with hyphens
generate_change_id_mut(uuid_part, stack_name, pos) ==
    uuid_part \o <<"-">> \o stack_name \o <<"-">> \o str(pos)

\* generate_change_id on text: f"{uuid_part}@{stack_name}@{position}"
generate_change_id_text(uuid_part, stack_name, pos) ==
    uuid_part \o <<CHANGE_ID_DELIMITER>> \o stack_name
              \o <<CHANGE_ID_DELIMITER>> \o str(pos)

\* the identifier in the format generated before the delimiter changed
legacy_change_id(uuid_part, stack_name, pos) ==
    uuid_part \o <<"-">> \o stack_name \o <<"-">> \o str(pos)

\* extract_stack_name on text
extract_stack_name_text(change_id) ==
    IF change_id = NoText THEN NoText
    ELSE IF \E i \in 1..Len(change_id) : change_id[i] = CHANGE_ID_DELIMITER
    THEN LET parts == split(change_id, CHANGE_ID_DELIMITER) IN
         IF Len(parts) = 3 THEN parts[2] ELSE NoText
    ELSE LET parts == split(change_id, "-") IN
         IF Len(parts) >= 3 THEN join(SubSeq(parts, 2, Len(parts) - 1), "-")
         ELSE NoText

\* extract_position on text
extract_position_text(change_id) ==
    IF change_id = NoText THEN NoInt
    ELSE IF \E i \in 1..Len(change_id) : change_id[i] = CHANGE_ID_DELIMITER
    THEN LET parts == split(change_id, CHANGE_ID_DELIMITER) IN
         IF Len(parts) = 3 /\ isdigit(parts[3]) THEN int(parts[3]) ELSE NoInt
    ELSE LET parts == split(change_id, "-") IN
         IF isdigit(parts[Len(parts)]) THEN int(parts[Len(parts)]) ELSE NoInt

\* a line of a commit message: the label it begins with, 'Change-Id:' in
\* some case followed by blanks, or none, and the text after it
Line(key, rest) == [key |-> key, rest |-> rest]
Keys == {"Change-Id:", "change-id:"}

\* NEW_CHANGE_ID_PATTERN at the beginning of a line: the three groups, or
\* <<>> when it does not match
new_groups(line) ==
    LET u == run_of(line.rest, HexChars)
        r1 == after(line.rest, u)
        n == IF r1 = <<>> THEN <<>> ELSE run_of(Tail(r1), NameChars)
        r2 == IF r1 = <<>> THEN <<>> ELSE after(Tail(r1), n)
        p == IF r2 = <<>> THEN <<>> ELSE run_of(Tail(r2), DigitChars)
    IN  IF /\ line.key \in Keys
           /\ u # <<>> /\ r1 # <<>> /\ Head(r1) = "@"
           /\ n # <<>> /\ r2 # <<>> /\ Head(r2) = "@"
           /\ p # <<>>
        THEN <<u, n, p>> ELSE <<>>

\* OLD_CHANGE_ID_PATTERN at the beginning of a line: its group, or <<>>
old_group(line) ==
    IF line.key \in Keys THEN run_of(line.rest, NameChars) ELSE <<>>

\* extract_change_id on text: the first match of the new pattern in the
\* message, put together again with the delimiter; failing that the first
\* match of the old pattern; failing that None
extract_change_id_text(message) ==
    LET new == {i \in 1..Len(message) : new_groups(message[i]) # <<>>}
        old == {i \in 1..Len(message) : old_group(message[i]) # <<>>}
    IN  IF message = <<>> THEN NoText
        ELSE IF new # {}
        THEN LET g == new_groups(message[CHOOSE i \in new : \A j \in new : i <= j])
             IN  g[1] \o <<CHANGE_ID_DELIMITER>> \o g[2]
                      \o <<CHANGE_ID_DELIMITER>> \o g[3]
        ELSE IF old # {}
        THEN old_group(message[CHOOSE i \in old : \A j \in old : i <= j])
        ELSE NoText

\* validate_stack_name on text
validate_stack_name_text(stack_name) ==
    /\ stack_name # <<>>
    /\ \A i \in 1..Len(stack_name) : stack_name[i] # CHANGE_ID_DELIMITER
    /\ \A i \in 1..Len(stack_name) : stack_name[i] \in NameChars
    /\ stack_name[1] # "-" /\ stack_name[Len(stack_name)] # "-"

\* the names a user can type, and those the command line accepts
TypedChars == {"a", "s", "1", "-", "@"}
TypedNames == UNION {[1..n -> TypedChars] : n \in 1..MaxName}
ValidNames == {n \in TypedNames : validate_stack_name_text(n)}

\* str(uuid.uuid4())[:8], two characters of it
UuidParts == [1..2 -> {"a", "1"}]

\* what a commit message holds above its last line: nothing, a line of
\* prose, or a line with the label that is no identifier of the current
\* format
Bodies == {<<>>,
           <<Line("", <<"s", "@", "1">>)>>,
           <<Line("Change-Id:", <<"s", "-", "1">>)>>,
           <<Line("change-id:", <<"a", "@">>)>>}

\* of Bodies, those without a line that has the label
PlainBodies == {b \in Bodies : \A i \in 1..Len(b) : b[i].key \notin Keys}

InitCodec ==
    /\ QuietRepo
    /\ store = NoStore
    /\ \E n \in ValidNames, p \in 1..MaxPos, b \in Bodies :
          codec = [at |-> "generate", stack_name |-> n, position |-> p,
                   body |-> b, change_id |-> NoText, legacy |-> NoText,
                   name_out |-> NoText, position_out |-> NoInt,
                   extracted |-> NoText, legacy_position |-> NoInt,
                   plain |-> NoText]

nonCodecVars == <<gitVars, hostVars, nextUuid, histVars, engineVars, countVars,
                  faults, blocksApi, glab, store>>

\* generate_change_id(stack_name, position), uuid4 returning any value; an
\* identifier of an earlier version has the same parts
GenerateChangeId ==
    /\ codec.at = "generate"
    /\ \E u \in UuidParts :
          codec' = [codec EXCEPT
                      !.at = "stack_name",
                      !.change_id = generate_change_id_text(u, codec.stack_name, codec.position),
                      !.legacy = legacy_change_id(u, codec.stack_name, codec.position)]
    /\ UNCHANGED nonCodecVars

ExtractStackName ==
    /\ codec.at = "stack_name"
    /\ codec' = [codec EXCEPT !.at = "position",
                              !.name_out = extract_stack_name_text(codec.change_id)]
    /\ UNCHANGED nonCodecVars

ExtractPosition ==
    /\ codec.at = "position"
    /\ codec' = [codec EXCEPT
                   !.at = "message",
                   !.position_out = extract_position_text(codec.change_id),
                   !.legacy_position = extract_position_text(codec.legacy)]
    /\ UNCHANGED nonCodecVars

\* extract_change_id of the message that ends with the identifier line, and
\* of the message without that line
ExtractChangeId ==
    /\ codec.at = "message"
    /\ codec' = [codec EXCEPT
                   !.at = "done",
                   !.extracted = extract_change_id_text(
                       Append(codec.body, Line("Change-Id:", codec.change_id))),
                   !.plain = extract_change_id_text(codec.body)]
    /\ UNCHANGED nonCodecVars

NextCodec ==
    \/ GenerateChangeId
    \/ ExtractStackName
    \/ ExtractPosition
    \/ ExtractChangeId

SpecCodec == InitCodec /\ [][NextCodec]_vars

(* ------------- the mapping store under concurrent use ----------------- *)
MaxSaves == 2

\* two threads that save, one thread of the process that loads, and the
\* stack-name completer, a reader in another process
Savers == {"s1", "s2"}
Loader == "ld"
Completer == "ext"
Threads == Savers \cup {Loader, Completer}

NotRead == [status |-> "none", text |-> <<>>]

\* the mapping file holds what an earlier run saved, or is absent
InitStore ==
    /\ QuietRepo
    /\ codec = NoCodec
    /\ \E disk \in {[kind |-> "absent", text |-> <<>>]}
                  \cup {[kind |-> "file", text |-> json_dump(m)] : m \in StoreMaps} :
          store = [NoStore EXCEPT !.disk = disk,
                                  !.at = [t \in Threads |-> "idle"],
                                  !.job = [t \in Savers |-> <<>>],
                                  !.seen = [t \in {Loader, Completer} |-> NotRead]]

\* save_mapping(path, data) is called
SaveBegin(t) ==
    /\ store.at[t] = "idle"
    /\ store.saves < MaxSaves
    /\ \E m \in StoreMaps :
          store' = [store EXCEPT !.at[t] = "acquire", !.job[t] = json_dump(m),
                                 !.saves = @ + 1]
    /\ UNCHANGED nonStoreVars

\* load_mapping(path) is called
LoadBegin ==
    /\ store.at[Loader] = "idle"
    /\ store' = [store EXCEPT !.at[Loader] = "acquire", !.seen[Loader] = NotRead]
    /\ UNCHANGED nonStoreVars

\* with _mapping_lock: the thread waits until the lock is free and takes it
Acquire(t) ==
    /\ store.at[t] = "acquire"
    /\ store.lock = "free"
    /\ store' = [store EXCEPT !.lock = t,
                              !.at[t] = IF t = Loader THEN "read" ELSE "open"]
    /\ UNCHANGED nonStoreVars

\* open(path, 'w') creates the file or truncates it to nothing
SaveOpen(t) ==
    /\ store.at[t] = "open"
    /\ store' = [store EXCEPT !.disk = [kind |-> "file", text |-> <<>>],
                              !.at[t] = "write"]
    /\ UNCHANGED nonStoreVars

\* json.dump hands the next piece to f.write, and the piece reaches the file
SaveWrite(t) ==
    /\ store.at[t] = "write"
    /\ store.job[t] # <<>>
    /\ store' = [store EXCEPT !.disk.text = Append(@, Head(store.job[t])),
                              !.job[t] = Tail(@)]
    /\ UNCHANGED nonStoreVars

\* the file is closed and the with block releases the lock
Release(t) ==
    /\ store.at[t] = IF t = Loader THEN "loaded" ELSE "write"
    /\ t \in Savers => store.job[t] = <<>>
    /\ store' = [store EXCEPT !.lock = "free", !.at[t] = "idle"]
    /\ UNCHANGED nonStoreVars

\* load_mapping reads the file while it holds the lock
LoadRead ==
    /\ store.at[Loader] = "read"
    /\ store' = [store EXCEPT !.at[Loader] = "loaded",
                              !.seen[Loader] = [status |-> store.disk.kind,
                                                text |-> store.disk.text],
                              !.result = load_mapping_file(store.disk)]
    /\ UNCHANGED nonStoreVars

\* StackNameCompleter.__call__: the file exists, and open and json.load
\* read it without the lock
CompleterRead ==
    /\ store.disk.kind = "file"
    /\ store' = [store EXCEPT !.seen[Completer] = [status |-> "file",
                                                   text |-> store.disk.text]]
    /\ UNCHANGED nonStoreVars

NextStore ==
    \/ \E t \in Savers : SaveBegin(t)
    \/ LoadBegin
    \/ \E t \in Savers \cup {Loader} : Acquire(t)
    \/ \E t \in Savers : SaveOpen(t)
    \/ \E t \in Savers : SaveWrite(t)
    \/ \E t \in Savers \cup {Loader} : Release(t)
    \/ LoadRead
    \/ CompleterRead

SpecStore == InitStore /\ [][NextStore]_vars

(* -------- reindex of commits whose identifier line the user wrote ----- *)
\* the line of commit k with its key in lower case
LowerKey(sha, k) == [sha EXCEPT ![k].ids = <<@[1] \o <<"lower">>>>]

\* the two commits of stack a, every stack branch in place; the key of the
\* second commit's identifier line may be in lower case
InitReindex ==
    \E lower \in BOOLEAN :
        InitRepoAt(FALSE, IF lower THEN LowerKey(ExistingSha(2), 2)
                          ELSE ExistingSha(2), {1..3})

NextReindex ==
    \/ UserTouch
    \/ ReindexBegin
    \/ ReindexCloseMrs
    \/ AddChangeIdsBegin
    \/ CheckoutBase
    \/ CherryPick
    \/ Amend
    \/ CherryPickAbort
    \/ RestoreFromBackup
    \/ ReturnToRef
    \/ CleanupBackupRef
    \/ Finish

SpecReindex == InitReindex /\ [][NextReindex]_vars

(* ------------- the review phases of push on their own ----------------- *)
MaxChain == 3

\* the identifiers of a stack of k commits pushed before
PoolId(k) == <<k, "a", k>>

PoolSha(n) == [k \in 1..n |-> [NewCommit(k) EXCEPT !.ids = <<PoolId(k)>>]]

\* push has built the chain of a stack of up to MaxChain commits: some of
\* them were pushed before and have a branch, a review and a mapping entry,
\* the review with or without its stack-chain note; the service offers the
\* blocking-reviews endpoint or does not
InitPool ==
    \E n \in 1..MaxChain, api \in BOOLEAN :
      \E M \in SUBSET (1..n) :
        \E N \in SUBSET M :
            /\ headRef = Feature
            /\ headSha = PoolSha(n)
            /\ localBr = [b \in {Feature} \cup {get_branch_name(PoolId(k)) : k \in M} |->
                            IF b = Feature THEN headSha
                            ELSE SubSeq(headSha, 1, b.id[3])]
            /\ remoteBr = [b \in {get_branch_name(PoolId(k)) : k \in M} |->
                            SubSeq(headSha, 1, b.id[3])]
            /\ backupRef = <<>>
            /\ dirty = FALSE
            /\ cpInProgress = FALSE
            /\ mappingFile = [c \in {PoolId(k) : k \in M} |-> <<c, 1>>]
            /\ mrs = [m \in {<<PoolId(k), 1>> : k \in M} |->
                        [source_branch |-> get_branch_name(m[1]),
                         target_branch |-> IF m[1][3] = 1 THEN StripOrigin(<<"main">>)
                                           ELSE get_branch_name(PoolId(m[1][3] - 1)),
                         state |-> "opened",
                         notes |-> IF m[1][3] \in N THEN 1 ELSE 0]]
            /\ nextUuid = 1
            /\ nextSerial = n + 1
            /\ pc = "branches"
            /\ run = [NoRun EXCEPT !.verb = "push", !.base = <<"main">>]
            /\ mapping = load_mapping(mappingFile)
            /\ commits = get_commits(headSha)
            /\ chain = build_mr_chain(commits, <<"main">>)
            /\ idx = 0
            /\ position = 0
            /\ tasks = {}
            /\ results = <<>>
            /\ calls = NoCalls
            /\ pre = Snapshot
            /\ last = [ok |-> FALSE, headSha |-> <<>>, mappingFile |-> EmptyMap]
            /\ created = [c \in {PoolId(k) : k \in M} |-> 1]
            /\ createdOk = [c \in {PoolId(k) : k \in M} |-> 1]
            /\ runs = 1
            /\ faults = 0
            /\ edits = 0
            /\ blocksApi = api
            /\ store = NoStore
            /\ codec = NoCodec
            /\ glab = NoGlab

NextPool ==
    \/ UpdateLocalBranches
    \/ PushBranches
    \/ ProcessMr
    \/ MergeMrResults
    \/ SetDependency
    \/ DependenciesDone
    \/ UpdateStackLink
    \/ StackLinksDone
    \/ Finish

SpecPool == InitPool /\ [][NextPool]_vars

(* ---------------- GitLabClient._run_glab_command ---------------------- *)
\* retries=3, the default of _run_glab_command
Retries == 3

\* the words that make a failed attempt retryable
TransientMarkers == {"timeout", "connection", "rate limit", "503", "502", "504"}

\* what a failed attempt can print: a transient marker, or something else
ErrorOutputs == TransientMarkers \cup {"404", "permission denied"}

\* an attempt exits 0 and prints its result, or fails and prints an error
Attempts == {[returncode |-> 0, output |-> "stdout"]}
                \cup {[returncode |-> 1, output |-> e] : e \in ErrorOutputs}

\* mutation: every failed attempt is taken to be transient
retryable_mut(error_output) == TRUE

\* any(x in error_output for x in [...])
retryable(error_output) == error_output \in TransientMarkers

\* a call of _run_glab_command starts, in a fresh clone
InitGlab ==
    \E check \in BOOLEAN, dry \in BOOLEAN :
        /\ headRef = Feature
        /\ headSha = <<NewCommit(1)>>
        /\ localBr = [b \in {Feature} |-> headSha]
        /\ remoteBr = EmptyMap
        /\ backupRef = <<>>
        /\ dirty = FALSE
        /\ cpInProgress = FALSE
        /\ mappingFile = EmptyMap
        /\ mrs = EmptyMap
        /\ nextUuid = 1
        /\ nextSerial = 2
        /\ EngineIdle
        /\ last = [ok |-> FALSE, headSha |-> <<>>, mappingFile |-> EmptyMap]
        /\ created = EmptyMap
        /\ createdOk = EmptyMap
        /\ runs = 0
        /\ faults = 0
        /\ edits = 0
        /\ blocksApi = TRUE
        /\ store = NoStore
        /\ codec = NoCodec
        /\ glab = [NoGlab EXCEPT !.status = "running", !.check = check, !.dry = dry]

\* everything but the call of _run_glab_command
nonGlabVars == <<gitVars, hostVars, nextUuid, histVars, engineVars, countVars,
                 faults, blocksApi, store, codec>>

\* if self.dry_run: the command is printed, '' is returned
GlabDryRun ==
    /\ glab.status = "running"
    /\ glab.dry
    /\ glab' = [glab EXCEPT !.status = "returned", !.out = ""]
    /\ UNCHANGED nonGlabVars

\* one pass of 'for attempt in range(retries)': subprocess.run of glab
\* (found: the executable exists), then return, sleep and continue, raise,
\* or break and return ''
GlabAttempt ==
    \E found \in BOOLEAN, a \in Attempts :
        LET attempt == Len(glab.log) IN
        /\ glab.status = "running"
        /\ ~glab.dry
        /\ attempt < Retries
        /\ glab' =
             IF ~found
             THEN [glab EXCEPT !.status = "exited"]
             ELSE IF a.returncode = 0
             THEN [glab EXCEPT !.log = Append(@, a), !.status = "returned",
                               !.out = a.output]
             ELSE IF retryable(a.output) /\ attempt < Retries - 1
             THEN [glab EXCEPT !.log = Append(@, a),
                               !.slept = Append(@, 2 ^ attempt)]
             ELSE IF glab.check
             THEN [glab EXCEPT !.log = Append(@, a), !.status = "raised"]
             ELSE [glab EXCEPT !.log = Append(@, a), !.status = "returned",
                               !.out = ""]
        /\ UNCHANGED nonGlabVars

NextGlab ==
    \/ GlabDryRun
    \/ GlabAttempt

SpecGlab == InitGlab /\ [][NextGlab]_vars

(* ----------------------------- properties ----------------------------- *)
RewritePcs == {"checkout_base", "pick", "amend", "abort", "restore",
               "return_ref", "cleanup"}

EndPcs == {"done", "fatal", "crashed"}

HadId(i) == pre.headSha[i].ids # <<>>

\* C1: a push run again on the commits and the mapping file that a fully
\* successful push left issues no create_mr call, issues one update_mr call
\* per chain entry and leaves the mapping entries as they were
C1_Idempotence ==
    (run.verb = "push" /\ ~run.dry /\ run.again) =>
        /\ calls.create = 0
        /\ calls.save = 0
        /\ mappingFile = pre.mappingFile
        /\ mapping = pre.mappingFile
        /\ pc = "done" => calls.update = Len(chain)

C1_Witness ==
    /\ run.verb = "push" /\ ~run.dry /\ run.again /\ pc = "done"
    /\ Len(chain) >= 2
    /\ calls.update = Len(chain)

\* C2 as stated: no change identifier ever has more than one create_mr
\* call issued for it
C2_OneCreateIssued == \A c \in DOMAIN created : created[c] <= 1

\* C2 amended: no change identifier ever has more than one create_mr call
\* that returned a review, so the service holds at most one review per
\* identifier; a create_mr call that raised is issued again by the next push
C2_OneReviewCreated ==
    /\ \A c \in DOMAIN createdOk : createdOk[c] <= 1
    /\ \A m, n \in DOMAIN mrs : mrs[m].source_branch = mrs[n].source_branch => m = n
    /\ \A c \in DOMAIN createdOk : created[c] >= createdOk[c]

C2_Witness ==
    /\ run.verb = "push" /\ ~run.dry /\ pc = "done"
    /\ calls.update >= 1 /\ calls.create = 0
    /\ \E c \in DOMAIN createdOk : createdOk[c] = 1 /\ c = chain[1].change_id

PositionsBefore(i) ==
    {extract_position(commits[j].change_id) :
        j \in {k \in 1..Len(pre.headSha) : k # i /\ (HadId(k) \/ k < i)}} \cup {0}

\* C4 as stated: an identifier injected by push gets the position
\* max(positions already present in the commit set) + 1, wherever the
\* commit sits in the commit order
C4_AppendOnlyPosition ==
    (run.verb = "push" /\ ~run.dry /\ pc \in {"return_ref", "cleanup"}) =>
        \A i \in 1..Len(pre.headSha) :
            ~HadId(i) =>
                extract_position(commits[i].change_id) = Max(PositionsBefore(i)) + 1

\* C5: a commit that carries a change identifier when push starts carries
\* the same identifier in the engine's commit list and in the history
\* throughout the run and when the run has ended
C5_IdentityStable ==
    (run.verb = "push" /\ pc # "idle") =>
        \A i \in 1..Len(pre.headSha) :
            HadId(i) =>
                /\ i <= Len(commits)
                /\ commits[i].change_id = extract_change_id(pre.headSha[i].ids)
                /\ i <= Len(headSha) => headSha[i].ids = pre.headSha[i].ids
                /\ pc \in EndPcs => i <= Len(headSha)

C5_Witness ==
    /\ run.verb = "push" /\ ~run.dry /\ pc = "done"
    /\ \E i, j \in 1..Len(pre.headSha) :
          /\ HadId(i) /\ ~HadId(j) /\ j < i
          /\ headSha[i].ids = pre.headSha[i].ids

\* the base branch name without a leading remote-tracking prefix
WithoutRemotePrefix(base_branch) ==
    IF base_branch # <<>> /\ base_branch[1] = "origin/" THEN Tail(base_branch)
    ELSE base_branch

\* C6 as stated: the chain has one entry per commit in commit order, the
\* source branch of an entry is the branch of its commit's identifier, the
\* target of the first entry is the base branch name without its leading
\* remote-tracking prefix, and the target of a later entry is the source
\* branch of the entry before it
C6_ChainCorrect ==
    (run.verb = "push" /\ pc \in {"branches", "done"} /\ run.err = "none") =>
        /\ Len(chain) = Len(commits)
        /\ \A i \in 1..Len(chain) :
              /\ chain[i].sha = commits[i].sha
              /\ chain[i].change_id = commits[i].change_id
              /\ chain[i].source_branch = get_branch_name(commits[i].change_id)
              /\ i > 1 => chain[i].target_branch = chain[i - 1].source_branch
              /\ i = 1 => chain[i].target_branch =
                             [path |-> WithoutRemotePrefix(run.base), id |-> None]

\* the backup reference points at the pre-run HEAD while the rewrite runs
\* and after it has failed
C7_BackupHeld ==
    /\ (pc \in RewritePcs /\ ~run.dry) => backupRef = <<pre.headSha>>
    /\ (pc = "fatal" /\ run.err = "cherry_pick") => backupRef = <<pre.headSha>>

\* the steps that delete or write the backup reference
C7_BackupSteps ==
    /\ (backupRef # <<>> /\ backupRef' = <<>>) =>
          /\ pc = "cleanup"
          /\ headSha = Last(commits).sha
          /\ run.original_ref # Detached =>
                (headRef = run.original_ref /\ localBr[headRef] = headSha)
    /\ (backupRef' # backupRef /\ backupRef' # <<>>) =>
          /\ pc = "add_ids" /\ pc' = "checkout_base"
          /\ ~run.dry
          /\ commits_needing_ids(commits) # {}
          /\ backupRef' = <<headSha>>

C8_DirtyTreeFatal ==
    (run.verb = "push" /\ pc # "idle" /\ dirty
        /\ commits_needing_ids(get_commits(pre.headSha)) # {}) =>
        /\ pc \in {"add_ids", "fatal"}
        /\ pc = "fatal" => run.err = "dirty"
        /\ calls = NoCalls
        /\ Snapshot = pre
        /\ mapping = pre.mappingFile

C8_Witness ==
    /\ run.verb = "push" /\ ~run.dry /\ pc = "fatal" /\ run.err = "dirty"
    /\ dirty /\ Len(commits) >= 2

\* C9: a dry-run push leaves HEAD, every commit, every local and remote
\* branch, the backup reference, the mapping file and every review as they
\* were and issues no writing call
C9_DryRunPushFrame ==
    (run.verb = "push" /\ run.dry /\ pc # "idle") =>
        /\ Snapshot = pre
        /\ calls = NoCalls
        /\ mapping = pre.mappingFile
        /\ ~cpInProgress

C9_Witness ==
    /\ run.verb = "push" /\ run.dry /\ pc = "done"
    /\ Len(chain) >= 2
    /\ \E i \in 1..Len(pre.headSha) : ~HadId(i)
    /\ \E i \in 1..Len(pre.headSha) : HadId(i)

\* C10 as stated: a dry run of clean, reindex, checkout or remove leaves
\* the in-memory mapping, the mapping file, every local and remote branch,
\* HEAD, every commit and every review as they were when the verb began
C10_DryRunVerbsFrame ==
    (run.verb \in {"clean", "reindex", "checkout", "remove"} /\ run.dry
        /\ pc # "idle") =>
        /\ mapping = pre.mappingFile
        /\ mappingFile = pre.mappingFile
        /\ localBr = pre.localBr
        /\ remoteBr = pre.remoteBr
        /\ headRef = pre.headRef
        /\ headSha = pre.headSha
        /\ mrs = pre.mrs

ReviewPcs == {"mrs", "deps", "links", "done"}

\* every branch of the chain is at its commit on origin, and locally unless
\* it is the checked-out branch
BranchesInPlace ==
    \A i \in 1..Len(chain) :
        LET b == chain[i].source_branch IN
        /\ b \in DOMAIN remoteBr /\ remoteBr[b] = chain[i].sha
        /\ b # headRef => (b \in DOMAIN localBr /\ localBr[b] = chain[i].sha)

\* C11: in a push run a create or update call is issued only after every
\* branch of the chain was force-updated and pushed, a set-blocking or note
\* call only after every create/update task has run and the mapping was
\* merged, and a run whose branch push failed issues no review call
C11_PhaseOrder ==
    (run.verb = "push" /\ pc # "idle") =>
        /\ calls.create + calls.update > 0 =>
              (pc \in ReviewPcs /\ BranchesInPlace)
        /\ calls.blocking + calls.note > 0 =>
              /\ pc \in {"deps", "links", "done"}
              /\ calls.create + calls.update = Len(chain)
              /\ results = <<>>
              /\ mapping = mappingFile
        /\ pc = "crashed" =>
              calls.create + calls.update + calls.blocking + calls.note = 0

C11_Witness ==
    /\ run.verb = "push" /\ pc = "links"
    /\ Len(chain) >= 2
    /\ calls.create >= 1 /\ calls.blocking >= 1 /\ calls.note >= 1

\* the chain entries whose call raised in a phase, and those reported
FailedIn(phase) == {f[2] : f \in {g \in run.failed : g[1] = phase}}

ReportedIn(phase) == {e[2] : e \in {g \in run.errors : g[1] = phase}}

\* the identifiers of the chain for which this run's create_mr returned
SuccessfulCreates ==
    {chain[i].change_id :
        i \in {j \in 1..Len(chain) :
                  /\ chain[j].change_id \notin DOMAIN pre.mappingFile
                  /\ j \notin FailedIn("mrs")}}

ReviewPhaseOver == ~run.dry /\ pc \in {"deps", "links", "done"}

\* the mapping of a push run: nothing of the loaded mapping is lost or
\* changed, and once the review phase is over the mapping and the file are
\* the loaded mapping plus one entry per create that returned
C13_MappingHeld ==
    (run.verb = "push" /\ pc # "idle") =>
        /\ calls.save <= 1
        /\ \A c \in DOMAIN pre.mappingFile :
              /\ c \in DOMAIN mapping /\ mapping[c] = pre.mappingFile[c]
              /\ c \in DOMAIN mappingFile /\ mappingFile[c] = pre.mappingFile[c]
        /\ ~ReviewPhaseOver =>
              /\ mapping = pre.mappingFile
              /\ mappingFile = pre.mappingFile
              /\ calls.save = 0
        /\ ReviewPhaseOver =>
              /\ mapping = mappingFile
              /\ DOMAIN mappingFile = DOMAIN pre.mappingFile \cup SuccessfulCreates
              /\ calls.save = IF SuccessfulCreates = {} THEN 0 ELSE 1
              /\ \A c \in SuccessfulCreates :
                    /\ mappingFile[c] \in DOMAIN mrs
                    /\ mrs[mappingFile[c]].source_branch = get_branch_name(c)

\* the step that writes the mapping: the pool has joined
C13_MappingSteps ==
    (run.verb = "push" /\ pc' # "idle"
        /\ (mapping' # mapping \/ mappingFile' # mappingFile
                \/ calls'.save # calls.save)) =>
        /\ pc = "mrs" /\ tasks = {}
        /\ new_mrs_created(results)

\* C13: in a push run the mapping is written by no worker task; the file is
\* written at most once, after every create/update task has finished and
\* only if a create returned; it then holds the loaded mapping plus one
\* entry per create that returned; updates, failed calls, the dependency
\* phase and the comment phase change no entry and no entry is removed
C13_MappingMutation == [](C13_MappingHeld) /\ [][C13_MappingSteps]_vars

C13_Witness ==
    /\ run.verb = "push" /\ pc = "done"
    /\ pre.mappingFile # EmptyMap
    /\ SuccessfulCreates # {}
    /\ calls.save = 1 /\ calls.update >= 1

\* the set-blocking calls of this run that returned the 'feature
\* unavailable' signal
Unavailable == {f \in run.failed : f[1] = "deps" /\ f[3] = "not_available"}

C14_Steps ==
    (run.verb = "push" /\ Unavailable # {}) => calls'.blocking <= calls.blocking

\* C14 as stated: once a set-blocking call of a push run has returned the
\* 'feature unavailable' signal, no further set-blocking call is made in
\* that run
C14_StopAfterUnavailable == [][C14_Steps]_vars

\* the signal makes push skip and warn once, and nothing else does
C15_Degraded ==
    (run.verb = "push" /\ pc # "idle") =>
        /\ run.skip_warnings = IF Unavailable # {} THEN 1 ELSE 0
        /\ run.feature_not_available <=> Unavailable # {}
        /\ Unavailable # {} => pc \in {"deps", "links", "done"}
        /\ (Unavailable # {} /\ pc = "done") =>
              calls.note = Cardinality({i \in 1..Len(chain) :
                                          chain[i].change_id \in DOMAIN mapping})

\* another failure of set-blocking, met before the signal, is reported for
\* its entry and does not end the reporting
C15_ErrorSteps ==
    \A i \in 1..Len(chain) :
        (/\ <<"deps", i, "raise">> \in run'.failed \ run.failed
         /\ ~run.feature_not_available) =>
            /\ <<"deps", i>> \in run'.errors
            /\ ~run'.feature_not_available
            /\ run'.skip_warnings = run.skip_warnings

C16_OneStackNote == \A m \in DOMAIN mrs : mrs[m].notes <= 1

\* the attempt failed with a transient marker in its output
TransientFailure(a) == a.returncode # 0 /\ a.output \in TransientMarkers

\* C17: a call of _run_glab_command outside a dry run runs the command at
\* most Retries = 3 times; every attempt that was followed by another one
\* failed with a transient marker, and 2^k seconds were slept after failed
\* attempt k (k = 0, 1); a failure without a transient marker ends the call
\* at once; a success returns the output at once; a failure that ends the
\* call is raised with check=True and gives '' with check=False
C17_RetryPolicy ==
    (glab.status # "none" /\ ~glab.dry) =>
        LET n == Len(glab.log)
            retried == IF glab.status \in {"running", "exited"} THEN n ELSE n - 1
        IN
        /\ Retries = 3
        /\ n <= Retries
        /\ glab.status \in {"returned", "raised"} => n >= 1
        /\ retried <= Retries - 1
        /\ \A k \in 1..retried : TransientFailure(glab.log[k])
        /\ glab.slept = [k \in 1..retried |-> 2 ^ (k - 1)]
        /\ glab.status \in {"returned", "raised"} =>
              IF Last(glab.log).returncode = 0
              THEN glab.status = "returned" /\ glab.out = Last(glab.log).output
              ELSE /\ ~TransientFailure(Last(glab.log)) \/ n = Retries
                   /\ glab.check => glab.status = "raised"
                   /\ ~glab.check => (glab.status = "returned" /\ glab.out = "")

C17_Witness ==
    /\ glab.status = "raised" /\ ~glab.dry
    /\ Len(glab.log) = 3
    /\ glab.slept = <<1, 2>>
    /\ TransientFailure(glab.log[3])

\* the entries of the stack a remove run was given, as the run found them
RemovedItems == stack_items(pre.mappingFile, run.stack_name)

\* C18 as stated: remove NAME outside a dry run issues one close call per
\* mapping entry of stack NAME, leaves no local and no remote branch of
\* such an entry, leaves no entry of NAME in the mapping and in the mapping
\* file and every other entry as it was; with no entry of NAME it closes,
\* deletes and writes nothing
C18_StackDeletion ==
    (run.verb = "remove" /\ ~run.dry /\ pc = "done") =>
        /\ calls.close = Cardinality(RemovedItems)
        /\ \A c \in RemovedItems :
              /\ get_branch_name(c) \notin DOMAIN localBr
              /\ get_branch_name(c) \notin DOMAIN remoteBr
        /\ stack_items(mapping, run.stack_name) = {}
        /\ stack_items(mappingFile, run.stack_name) = {}
        /\ mapping = mappingFile
        /\ mappingFile = Drop(pre.mappingFile, RemovedItems)
        /\ RemovedItems = {} => (Snapshot = pre /\ calls = NoCalls)

\* the mapping entries whose get_mr_state call raised in this run
StateUnknown == {f[2] : f \in {g \in run.failed : g[1] = "state"}}

\* the entries the clean run had to remove: the stack branch was gone when
\* the run began, or the review's state was obtained and is closed or merged
CleanRemovable ==
    {c \in DOMAIN pre.mappingFile :
        \/ get_branch_name(c) \notin DOMAIN pre.localBr
        \/ /\ c \notin StateUnknown
           /\ pre.mappingFile[c] \in DOMAIN pre.mrs
           /\ pre.mrs[pre.mappingFile[c]].state \in {"closed", "merged"}}

\* C19: after clean outside a dry run an entry is gone exactly if its local
\* branch does not exist or its review is closed or merged; an entry whose
\* branch exists and whose review is open or could not be looked up is
\* kept with its value; the mapping file is rewritten only if an entry was
\* removed
C19_CleanMapping ==
    (run.verb = "clean" /\ ~run.dry /\ pc = "done") =>
        /\ mapping = Drop(pre.mappingFile, CleanRemovable)
        /\ mappingFile = mapping
        /\ calls.save = IF CleanRemovable = {} THEN 0 ELSE 1
        /\ \A c \in StateUnknown : c \in DOMAIN mappingFile
        /\ mrs = pre.mrs

C19_Witness ==
    /\ run.verb = "clean" /\ ~run.dry /\ pc = "done"
    /\ Cardinality(DOMAIN pre.mappingFile) = 3
    /\ Cardinality(DOMAIN mappingFile) = 1
    /\ \E c \in CleanRemovable : get_branch_name(c) \in DOMAIN pre.localBr
    /\ \E c \in CleanRemovable : get_branch_name(c) \notin DOMAIN pre.localBr

\* the branches a clean run has deleted, locally or on origin
CleanDeleted ==
    (DOMAIN pre.localBr \ DOMAIN localBr) \cup (DOMAIN pre.remoteBr \ DOMAIN remoteBr)

\* C20 as stated: a branch clean deletes has the stack-branch prefix, is
\* not the branch of a mapping entry and is not the source branch of an
\* open review, and a branch whose lookup of open reviews failed is kept
C20_StaleBranchSafety ==
    (run.verb = "clean" /\ pc # "idle") =>
        \A b \in CleanDeleted :
            /\ b.path = StackPrefix
            /\ b \notin {get_branch_name(c) : c \in DOMAIN pre.mappingFile}
            /\ ~\E m \in DOMAIN pre.mrs :
                  pre.mrs[m].source_branch = b /\ pre.mrs[m].state = "opened"
            /\ <<"list", b, "raise">> \notin run.failed

\* the identifier commit k carried when the verb began
OldId(k) == extract_change_id(pre.headSha[k].ids)

\* the identifiers of the commits that were mapped when the verb began
WasMapped ==
    {OldId(k) : k \in 1..Len(pre.headSha)} \cap DOMAIN pre.mappingFile

\* a reindex outside a dry run has run to its end over at least one commit
ReindexDone ==
    run.verb = "reindex" /\ ~run.dry /\ pc = "done" /\ pre.headSha # <<>>

\* C21 as stated: after reindex one close call was issued per mapped
\* commit and those entries are gone from the mapping; every commit carries
\* exactly one identifier, of the new stack name, at positions 1..N in
\* commit order; no commit retains its previous identifier; reindex issues
\* no create call
C21_IdentityReset ==
    ReindexDone =>
        /\ calls.close = Cardinality(WasMapped)
        /\ DOMAIN mapping \cap WasMapped = {}
        /\ DOMAIN mappingFile \cap WasMapped = {}
        /\ Len(headSha) = Len(pre.headSha)
        /\ \A k \in 1..Len(headSha) :
              /\ Len(headSha[k].ids) = 1
              /\ extract_stack_name(extract_change_id(headSha[k].ids)) = run.stack_name
              /\ extract_position(extract_change_id(headSha[k].ids)) = k
              /\ \A j \in 1..Len(pre.headSha) :
                    extract_change_id(headSha[k].ids) # OldId(j)
        /\ calls.create = 0

\* the number of local commits of the running push
LocalCount == Len(pre.headSha)

\* the reviews of the local stack that were open at a position beyond the
\* local commits when the push began
OpenDownstream ==
    LET local == {OldId(k) : k \in 1..LocalCount} IN
    {m \in DOMAIN pre.mrs :
        /\ pre.mrs[m].state = "opened"
        /\ extract_stack_name(pre.mrs[m].source_branch.id) = extract_stack_name(OldId(1))
        /\ \A c \in local :
              extract_position(pre.mrs[m].source_branch.id) > extract_position(c)}

\* a push outside a dry run has built its chain and no call has failed, so
\* the lookup of the downstream reviews was answered
ChainBuilt ==
    /\ run.verb = "push" /\ ~run.dry
    /\ pc = "branches"
    /\ faults = 0

NamedItems == stack_items(pre.mappingFile, run.stack_name)

\* checkout has returned
CheckoutDone == run.verb = "checkout" /\ pc = "done"

\* git checkout ran and did not fail
CheckedOut ==
    /\ CheckoutDone /\ ~run.dry
    /\ NamedItems # {}
    /\ ~\E f \in run.failed : f[1] = "checkout"

\* C23, amended: checkout NAME switches to the branch of an entry of stack
\* NAME that no other entry of the stack exceeds in position; with no
\* entry of that name nothing is checked out; the mapping is never
\* modified
C23_CheckoutHighest ==
    CheckoutDone =>
        /\ mappingFile = pre.mappingFile
        /\ mapping = pre.mappingFile
        /\ (NamedItems = {} \/ run.dry) =>
              /\ calls.git = 0
              /\ headRef = pre.headRef /\ headSha = pre.headSha
              /\ localBr = pre.localBr
        /\ CheckedOut =>
              \E c \in NamedItems :
                  /\ \A d \in NamedItems : extract_position(d) <= extract_position(c)
                  /\ headRef = get_branch_name(c)
                  /\ calls.git = 1

C23_Witness ==
    /\ CheckedOut
    /\ Cardinality(NamedItems) = 3
    /\ headRef # pre.headRef

\* C23 as stated: after a push of the stack the branch checkout switches to
\* is the branch of the tip commit of that push
C23_CheckoutTip ==
    /\ C23_CheckoutHighest
    /\ (/\ CheckedOut
        /\ last.ok
        /\ last.mappingFile = pre.mappingFile
        /\ extract_stack_name(extract_change_id(Last(last.headSha).ids)) = run.stack_name)
       => headRef = get_branch_name(extract_change_id(Last(last.headSha).ids))

\* the mapping file can be read and its text is a JSON object
Parsed == store.disk.kind = "file" /\ is_object(store.disk.text)

\* C24 as stated: for every state of the mapping file load_mapping raises
\* nothing and returns a map, the empty map when the file is absent,
\* unreadable or cannot be parsed, and the map the file holds otherwise
C24_LoadNeverFails ==
    store.result.status # "none" =>
        /\ store.result.status = "returned"
        /\ store.result.type = "dict"
        /\ store.result.value = IF Parsed THEN object_of(store.disk.text)
                                ELSE EmptyMap

\* the text is everything one save_mapping writes
Whole(text) == \E m \in StoreMaps : text = json_dump(m)

\* the threads inside the block guarded by the lock
InLock == {t \in Savers \cup {Loader} :
              store.at[t] \in {"open", "write", "read", "loaded"}}

\* the file holds what the saver that has the lock wrote so far, and all
\* of one save when no saver has it
NotInterleaved ==
    /\ \A t \in Savers : store.at[t] = "write" =>
          \E m \in StoreMaps : store.disk.text \o store.job[t] = json_dump(m)
    /\ (store.disk.kind = "file" /\ \A t \in Savers : store.at[t] # "write") =>
          Whole(store.disk.text)

\* C25 as stated: save_mapping and load_mapping exclude each other, two
\* saves never interleave their writes, and no reader that runs while
\* save_mapping does, load_mapping in the process or the completer outside
\* the lock, observes an empty or partly written file
C25_StoreConcurrency ==
    /\ Cardinality(InLock) <= 1
    /\ InLock # {} => store.lock \in InLock
    /\ NotInterleaved
    /\ \A r \in {Loader, Completer} :
          store.seen[r].status = "file" => Whole(store.seen[r].text)

\* C25 without the reader outside the lock
C25_InProcess ==
    /\ Cardinality(InLock) <= 1
    /\ InLock # {} => store.lock \in InLock
    /\ NotInterleaved
    /\ store.seen[Loader].status = "file" => Whole(store.seen[Loader].text)

RewriteRunDone ==
    /\ pc = "done"
    /\ run.verb \in {"push", "reindex"}
    /\ ~run.dry

\* the identifiers a run can hand to add_change_id_to_message
SomeIds == {ExistingIds[k] : k \in 1..3} \cup {<<u, "a", 1>> : u \in 1..MaxUuid}

\* C27: add_change_id_to_message returns a message that has an identifier
\* line unchanged, so applying it twice equals applying it once; no commit
\* ever carries two identifier lines, and after a push or a reindex that
\* ran to its end every commit of the stack carries exactly one
C27_OneLine ==
    /\ \A k \in 1..Len(headSha) :
          /\ Len(headSha[k].ids) <= 1
          /\ \A c, d \in SomeIds :
                LET m == headSha[k].ids IN
                /\ m # <<>> => add_change_id_to_message(m, c) = m
                /\ add_change_id_to_message(add_change_id_to_message(m, c), d)
                     = add_change_id_to_message(m, c)
    /\ RewriteRunDone => \A k \in 1..Len(headSha) : Len(headSha[k].ids) = 1

\* a reindex ran to its end on a commit whose line has a lower-case label,
\* which the stripping left in place, and on a commit that got a new line;
\* a push before it had given the second commit its first line
C27_Witness ==
    /\ RewriteRunDone
    /\ run.verb = "reindex"
    /\ runs = 2
    /\ Len(headSha) = 2
    /\ Len(headSha[1].ids[1]) = 4
    /\ Len(headSha[2].ids[1]) = 3
    /\ headSha[2].ids[1][1] \notin {ExistingIds[k][1] : k \in 1..3}

\* a dry-run push has returned its plan
DryPlanned == run.verb = "push" /\ run.dry /\ pc = "done" /\ chain # <<>>

\* a push outside a dry run has built its chain
RealPlanned == run.verb = "push" /\ ~run.dry /\ pc = "branches"

\* the plan a dry-run push makes from the state the running push began in
PlanFromStart ==
    plan_of(dry_run_chain(pre, run.stack_name), load_mapping(pre.mappingFile))

\* C28 as stated: the chain a real push builds has the entries of the
\* chain a dry-run push returns from the same repository, remote and
\* mapping state: as many, in the same commit order, each targeting the
\* same entry, with the same create-or-update decision
C28_DryRunSamePlan ==
    /\ DryPlanned => plan_of(chain, mapping) = PlanFromStart
    /\ RealPlanned => plan_of(chain, mapping) = PlanFromStart

\* C28 for the dry run alone: the plan it returns is the plan computed
\* from the state it began in
C28_DryPlan == DryPlanned => plan_of(chain, mapping) = PlanFromStart

\* C29 as stated: a reindex started on a working tree with uncommitted
\* changes ends in the fatal error and attempts no mutation on its way: no
\* close call is issued and no review changes, no mapping entry is removed,
\* the mapping file is not written, no backup reference is made and no
\* commit is rewritten
C29_DirtyReindex ==
    (run.verb = "reindex" /\ dirty) =>
        /\ pc \in {"reindex_close", "add_ids", "fatal"}
        /\ pc = "fatal" => run.err = "dirty"
        /\ calls.close = 0
        /\ mrs = pre.mrs
        /\ DOMAIN mapping = DOMAIN pre.mappingFile
        /\ calls.save = 0
        /\ mappingFile = pre.mappingFile
        /\ backupRef = pre.backupRef
        /\ headSha = pre.headSha

\* the entries a remove run has purged from the mapping file
Purged == RemovedItems \ DOMAIN mappingFile

\* C30 as stated: in a remove run every purged entry had its review closed
\* and its local and remote branch deleted before it was purged; no entry
\* is purged while its review is open
C30_CloseBeforePurge ==
    (run.verb = "remove" /\ ~run.dry) =>
        \A c \in Purged :
            /\ pre.mappingFile[c] \in DOMAIN mrs =>
                  mrs[pre.mappingFile[c]].state # "opened"
            /\ get_branch_name(c) \notin DOMAIN localBr
            /\ get_branch_name(c) \notin DOMAIN remoteBr

\* C30 for the calls alone: before an entry is purged the close call of
\* every entry and both delete commands of every branch have been issued
C30_CallsBeforePurge ==
    (run.verb = "remove" /\ ~run.dry /\ Purged # {}) =>
        /\ calls.close = Cardinality(RemovedItems)
        /\ calls.git = 2 * Cardinality(RemovedItems)

\* a push has stopped on a downstream commit it could not fetch or pick
DownstreamConflict == run.verb = "push" /\ run.err = "downstream"

\* C31: when fetching or picking a downstream commit fails, the push is
\* fatal and nothing is rolled back: HEAD holds the local commits and the
\* downstream commits picked before the failing one, the backup reference
\* is as it was, and the run pushes no branch and issues no create,
\* update, set-blocking or comment call
C31_DownstreamConflict ==
    DownstreamConflict =>
        /\ pc = "fatal"
        /\ Len(commits) >= LocalCount
        /\ headSha = Last(commits).sha
        /\ \A i \in 1..LocalCount : Last(commits[i].sha).subject = pre.headSha[i].subject
        /\ \A i \in (LocalCount + 1)..Len(commits) :
              commits[i].sha = Append(commits[i - 1].sha, Last(commits[i].sha))
        /\ backupRef = pre.backupRef
        /\ remoteBr = pre.remoteBr
        /\ mrs = pre.mrs
        /\ mappingFile = pre.mappingFile
        /\ calls.create = 0 /\ calls.update = 0 /\ calls.blocking = 0
        /\ calls.note = 0 /\ calls.save = 0

\* the second of two downstream commits failed after the first was picked
C31_Witness ==
    /\ DownstreamConflict
    /\ pc = "fatal"
    /\ Cardinality(OpenDownstream) = 2
    /\ Len(headSha) = LocalCount + 1


\* the push has come out of a rewrite in which every cherry-pick succeeded
Rewritten ==
    /\ run.verb = "push" /\ ~run.dry
    /\ pc = "downstream"
    /\ commits_needing_ids(get_commits(pre.headSha)) # {}

\* C32: after a rewrite in which every cherry-pick and amend succeeded the
\* history has as many commits as before with the same subjects in the
\* same order, each commit record holds the SHA of its rewritten commit,
\* HEAD is attached to the branch it was on before the run and that branch
\* is at the last rewritten commit (HEAD is detached at that commit if it
\* was detached before), and the backup reference is gone
C32_RewriteEndState ==
    Rewritten =>
        /\ Len(headSha) = Len(pre.headSha)
        /\ Len(commits) = Len(pre.headSha)
        /\ \A i \in 1..Len(headSha) :
              /\ headSha[i].subject = pre.headSha[i].subject
              /\ commits[i].sha = SubSeq(headSha, 1, i)
              /\ commits[i].subject = headSha[i].subject
        /\ headRef = pre.headRef
        /\ headRef # Detached => localBr[headRef] = Last(commits).sha
        /\ headSha = Last(commits).sha
        /\ backupRef = <<>>

C32_Witness ==
    /\ Rewritten
    /\ Len(headSha) = 2
    /\ headRef = Feature
    /\ headSha # pre.headSha
    /\ localBr[Feature] = headSha

\* the same end state reached by a run that began with HEAD detached
C32_WitnessDetached ==
    /\ Rewritten
    /\ headRef = Detached
    /\ headSha # pre.headSha
    /\ localBr = pre.localBr

\* the rewriter has raised the error that ends in 'Rolled back to original
\* state.'
RolledBackRaised == pc = "fatal" /\ run.err = "cherry_pick"

\* C33 as stated: after a rewrite that failed on a cherry-pick and was
\* rolled back, HEAD is attached to the branch it was on before the run,
\* HEAD and that branch are at the SHA they had before the run, no
\* cherry-pick is in progress and the working tree is clean
C33_PreRunState ==
    RolledBackRaised =>
        /\ headRef = pre.headRef
        /\ headSha = pre.headSha
        /\ pre.headRef # Detached => localBr[pre.headRef] = pre.headSha
        /\ ~cpInProgress
        /\ ~dirty

\* the part of C33 the rollback does achieve when only the cherry-pick
\* failed: the SHAs, no cherry-pick in progress, a clean tree
C33_ShasRestored ==
    (RolledBackRaised /\ faults <= 1) =>
        /\ headSha = pre.headSha
        /\ pre.headRef # Detached => localBr[pre.headRef] = pre.headSha
        /\ ~cpInProgress
        /\ ~dirty

\* history is being rewritten: HEAD has left the commit it was on
Rewriting == pc \in RewritePcs \ {"checkout_base"}

\* C34 as stated: whenever the rewriter raises the error that says it
\* rolled back, HEAD is at the SHA it had before the run, also in runs where
\* writing the backup reference, resolving it or the hard reset failed; and
\* history is rewritten only while the backup reference written by this run
\* exists
C34_RolledBackTruthful ==
    /\ RolledBackRaised => headSha = pre.headSha
    /\ Rewriting => backupRef = <<pre.headSha>>

\* the source branches of the chain
ChainBranches == {chain[i].source_branch : i \in 1..Len(chain)}

\* the last chain entry with source branch b
LastWith(b) ==
    CHOOSE i \in 1..Len(chain) :
        /\ chain[i].source_branch = b
        /\ \A j \in (i + 1)..Len(chain) : chain[j].source_branch # b

\* the step that force-updates the local branches: every chain branch but
\* the checked-out one is at the SHA of its entry (of the last one when two
\* entries name the same branch), the checked-out branch and the branches
\* outside the chain are where they were, origin is untouched
C35_LocalStep ==
    (pc = "branches" /\ run.verb = "push" /\ ~run.dry) =>
        /\ pc' = "push"
        /\ \A b \in ChainBranches \ {headRef} :
              b \in DOMAIN localBr' /\ localBr'[b] = chain[LastWith(b)].sha
        /\ \A b \in DOMAIN localBr :
              (b = headRef \/ b \notin ChainBranches) => localBr'[b] = localBr[b]
        /\ DOMAIN localBr' = DOMAIN localBr \cup (ChainBranches \ {headRef})
        /\ headRef' = headRef /\ headSha' = headSha
        /\ remoteBr' = remoteBr

\* the step that pushes: one git command; when it succeeds the branch of
\* every entry is at the entry's SHA on origin and no other branch of
\* origin moved, when it fails origin is as it was; no local branch moves
C35_PushStep ==
    (pc = "push" /\ run.verb = "push") =>
        /\ calls'.git = calls.git + 1
        /\ pc' \in {"mrs", "crashed"}
        /\ localBr' = localBr /\ headRef' = headRef /\ headSha' = headSha
        /\ pc' = "mrs" =>
              /\ \A i \in 1..Len(chain) :
                    /\ chain[i].source_branch \in DOMAIN remoteBr'
                    /\ remoteBr'[chain[i].source_branch] = chain[i].sha
              /\ \A b \in DOMAIN remoteBr \ ChainBranches :
                    b \in DOMAIN remoteBr' /\ remoteBr'[b] = remoteBr[b]
        /\ pc' = "crashed" => remoteBr' = remoteBr

\* C35: in a push that is not a dry run every chain entry's local branch is
\* force-set to the entry's SHA except the checked-out branch, which is not
\* touched; origin changes in one push command only, which carries one
\* refspec per chain entry, and after it succeeded the remote branch of
\* every entry is at the entry's SHA
C35_BranchPhase ==
    [][/\ C35_LocalStep
       /\ C35_PushStep
       /\ (run.verb = "push" /\ remoteBr' # remoteBr) => pc = "push"]_vars

\* the branches are pushed from a checked-out stack branch that is ahead of
\* its own chain entry
C35_Witness ==
    /\ run.verb = "push" /\ ~run.dry /\ pc = "mrs"
    /\ Len(chain) >= 2
    /\ headRef = chain[1].source_branch
    /\ localBr[headRef] = headSha
    /\ localBr[headRef] # chain[1].sha
    /\ remoteBr[headRef] = chain[1].sha
    /\ localBr[chain[2].source_branch] = chain[2].sha

\* the identifiers carried by the commits of HEAD
HeadIds == {extract_change_id(headSha[i].ids) : i \in 1..Len(headSha)} \ {None}

\* C36 as stated: whatever pushes, commits added on top, at the bottom or in
\* the middle, removals and amendments came before, no two identifiers of
\* the commits of HEAD that belong to the same stack have the same
\* position, and an identifier injected by push has a position that no other
\* identifier of the commit set has
C36_UniquePositions ==
    /\ \A c, d \in HeadIds :
          (c # d /\ extract_stack_name(c) = extract_stack_name(d)) =>
              extract_position(c) # extract_position(d)
    /\ (run.verb = "push" /\ ~run.dry /\ pc \in {"return_ref", "cleanup"}) =>
          \A i \in 1..Len(pre.headSha) :
              ~HadId(i) =>
                  \A j \in 1..Len(commits) :
                      j # i => extract_position(commits[j].change_id)
                                  # extract_position(commits[i].change_id)

\* a push that injected an identifier has built its chain
InjectedChain ==
    /\ run.verb = "push" /\ ~run.dry
    /\ pc \in {"branches", "push"} \cup ReviewPcs
    /\ \E i \in 1..Len(pre.headSha) : ~HadId(i)

\* C37 as stated: after a push that injected identifiers every entry of the
\* chain carries an identifier with the same stack name, which is the
\* override, else the name of the first identified commit, else the prompted
\* name, whatever override was given and whatever identifiers the commits
\* already carried
C37_OneStackName ==
    InjectedChain =>
        \A i \in 1..Len(chain) :
            extract_stack_name(chain[i].change_id) = run.stack_name

\* the part of C37 that holds: every identifier injected by the run carries
\* the name chosen for the run
C37_InjectedNamed ==
    InjectedChain =>
        \A i \in 1..Len(pre.headSha) :
            ~HadId(i) => extract_stack_name(commits[i].change_id) = run.stack_name

\* a push that is not a dry run has returned and no remote call of the run
\* raised
CleanPushDone ==
    /\ run.verb = "push" /\ ~run.dry /\ pc = "done"
    /\ run.failed = {} /\ run.errors = {}

\* the chain entries for which the run created a review
NewEntries == {i \in 1..Len(chain) : chain[i].change_id \notin DOMAIN pre.mappingFile}

\* C38: after a push that is not a dry run and in which every remote call
\* succeeded, every identifier of the chain has a mapping entry, the mapping
\* file equals the mapping in memory, and the entry of each review created
\* by the run holds the id that the create call of that very entry
\* returned: the id of a review that did not exist before the run and whose
\* source branch is the entry's branch
C38_MappingComplete ==
    CleanPushDone =>
        /\ \A i \in 1..Len(chain) : chain[i].change_id \in DOMAIN mapping
        /\ mappingFile = mapping
        /\ \A c \in DOMAIN pre.mappingFile :
              c \in DOMAIN mapping /\ mapping[c] = pre.mappingFile[c]
        /\ \A i \in NewEntries :
              LET m == mapping[chain[i].change_id] IN
              /\ m \in DOMAIN mrs \ DOMAIN pre.mrs
              /\ mrs[m].source_branch = chain[i].source_branch
              /\ \A j \in NewEntries : j # i => mapping[chain[j].change_id] # m

C38_Witness ==
    /\ CleanPushDone
    /\ Cardinality(NewEntries) = 2
    /\ calls.create = 2 /\ calls.save = 1
    /\ mappingFile # pre.mappingFile

\* the entries a step takes out of the mapping file
Dropped == DOMAIN mappingFile \ DOMAIN mappingFile'

\* C39 as stated: an entry that another engine instance saved while this
\* one was constructed is not lost when this one saves: a step of a push
\* takes no entry out of the mapping file, and a step of another verb takes
\* out only entries that the running instance had loaded and removed itself
C39_NoLostEntries ==
    [][/\ run.verb = "push" => Dropped = {}
       /\ Dropped \subseteq DOMAIN pre.mappingFile]_vars

================================================================
